---- MODULE Spec2Model ----
(***************************************************************************)
(* Model of the selection-and-budget pipeline of snip:                     *)
(*   selector.Select / membership / primary                                *)
(*   budget.Builder.BuildPlan / EnforceGlobalBudget                        *)
(*   budget.readAndTruncateFile with util.FeedUTF8, util.NormalizeNewlines *)
(*                                                                         *)
(* Two specifications:                                                     *)
(*   SpecTrunc  the truncation engine as a pure function of a file's bytes *)
(*              and the two per-file limits, applied once and then again   *)
(*              on its own output;                                         *)
(*   Spec       one pipeline run: Select, BuildPlan, then the budget       *)
(*              ladder of EnforceGlobalBudget, one action per ladder step. *)
(***************************************************************************)
EXTENDS Integers, Sequences, FiniteSets, TLC

VARIABLES
    tpc,        \* SpecTrunc: "idle" | "start" | "ran" | "reran"
    tIn,        \* SpecTrunc: the engine's input [bytes, ioerr, maxLines, maxBytes]
    tOut,       \* SpecTrunc: result of the first run
    tOut2,      \* SpecTrunc: result of running the engine on tOut.Content
    pc,         \* Spec: position of the pipeline run
    cfg,        \* Spec: configuration [pri, maxChars, maxLines, maxBytes, includeHidden]
    enabled,    \* Spec: set of enabled slice names
    fs,         \* Spec: the discovered files, path -> [reason, bytes, ioerr]
    selected,   \* Spec: output of Select [Included, Dropped]
    plan,       \* Spec: the Plan under construction
    basePlan,   \* Spec: the plan EnforceGlobalBudget was called with
    keep,       \* Spec: EnforceGlobalBudget's keep map (set of slices still kept)
    dropIdx,    \* Spec: index into orderedSlices of the next loop iteration
    nRenders,   \* Spec: number of calls of the render callback so far
    lastRender, \* Spec: rune count of the text the last render call returned
    text,       \* Spec: returned text [body, marker]
    err,        \* Spec: error returned by the pipeline ("" when none)
    ctxDone,    \* Spec: whether the context has been cancelled
    dpc,        \* SpecDisc: "idle" | "start" | "done"
    tree,       \* SpecDisc: the engine's rule sets and the files under the root
    discovered, \* SpecDisc: the list Discover returns
    epc,        \* SpecEnabled: "idle" | "start" | "done"
    eIn,        \* SpecEnabled: [profiles, profile, mods] given to EnabledSlices
    eOut,       \* SpecEnabled: [out, err, profiles] after the call
    cproc,      \* SpecCounter: per run, [pc, cur, tmp, calls] of its NextCounter calls
    counterFile,\* SpecCounter: content of the file "counter" (0 when absent)
    obtained,   \* SpecCounter: the values returned so far, in order of return
    rpc,        \* SpecRun: position of app.Run ("off" outside SpecRun)
    opts,       \* SpecRun: RunOptions, the configuration's profiles and the root
    runNo,      \* SpecRun: 1 for the first execution of Run, 2 for the second
    effects,    \* SpecRun: what Run has done outside itself [walked, written]
    ret,        \* SpecRun: what Run returned [code, OutputPath, Partial, HardCut]
    first,      \* SpecRun: plan, bundle and return of the first execution
    apc,        \* SpecAtomic: position inside AtomicWriteFile ("off" outside)
    adisk,      \* SpecAtomic: content of the target and of the temporary file
    aw,         \* SpecAtomic: locals of AtomicWriteFile [data, n, werr, cerr]
    ypc,        \* SpecApply: position inside apply.Apply ("off" outside)
    yIn,        \* SpecApply: [blocks, Write, Force] given to Apply
    yFiles,     \* SpecApply: what each relative path under the root holds
    yOut        \* SpecApply: [err, Wrote, plan] of the call

vars == <<tpc, tIn, tOut, tOut2, pc, cfg, enabled, fs, selected, plan, basePlan,
          keep, dropIdx, nRenders, lastRender, text, err, ctxDone,
          dpc, tree, discovered, epc, eIn, eOut, cproc, counterFile, obtained,
          rpc, opts, runNo, effects, ret, first,
          apc, adisk, aw, ypc, yIn, yFiles, yOut>>

truncVars == <<tpc, tIn, tOut, tOut2>>
pipeVars == <<pc, cfg, enabled, fs, selected, plan, basePlan, keep, dropIdx,
              nRenders, lastRender, text, err, ctxDone>>
discVars == <<dpc, tree, discovered>>

\* The variables of the specifications other than SpecTrunc, Spec and SpecSel.
enVars == <<epc, eIn, eOut>>
ctrVars == <<cproc, counterFile, obtained>>
runVars == <<rpc, opts, runNo, effects, ret, first>>
atomVars == <<apc, adisk, aw>>
applyVars == <<ypc, yIn, yFiles, yOut>>
toolVars == <<atomVars, applyVars>>
auxVars == <<discVars, enVars, ctrVars, runVars, toolVars>>

(***************************************************************************)
(* Bounds of the model.                                                    *)
(***************************************************************************)
MaxLen == 5          \* longest enumerated file, in bytes
MaxLineLimit == 3    \* largest enumerated per-file line limit
MaxByteLimit == 4    \* largest enumerated small per-file byte limit
MaxMods == 3         \* longest enumerated list of run modifiers
MaxCalls == 2        \* calls of NextCounter each run makes at most

(***************************************************************************)
(* Bytes.  One representative per class of byte the engine distinguishes:  *)
(*   "a"  printable ASCII      "LF" 0x0A      "CR" 0x0D                    *)
(*   "L2" lead byte of a two-byte sequence (0xC2..0xDF)                    *)
(*   "CB" continuation byte (0x80..0xBF)                                   *)
(*   "XX" a byte that starts no sequence (0xFF)                            *)
(***************************************************************************)
Bytes == {"a", "LF", "CR", "L2", "CB", "XX"}

UTFMax == 4

SeqsUpTo(S, n) == UNION {[1..k -> S] : k \in 0..n}

Max(a, b) == IF a > b THEN a ELSE b

Min(a, b) == IF a < b THEN a ELSE b

\* unicode/utf8.DecodeRune on the byte classes: [valid, size].
DecodeRune(buf) ==
    IF buf[1] \in {"a", "LF", "CR"} THEN [valid |-> TRUE, size |-> 1]
    ELSE IF buf[1] = "L2" /\ Len(buf) >= 2 /\ buf[2] = "CB"
         THEN [valid |-> TRUE, size |-> 2]
         ELSE [valid |-> FALSE, size |-> 1]

\* unicode/utf8.FullRune: an invalid encoding counts as a full rune.
FullRune(buf) ==
    IF Len(buf) = 0 THEN FALSE
    ELSE ~(buf[1] = "L2" /\ Len(buf) < 2)

RECURSIVE FeedUTF8(_)
FeedUTF8(buf) ==
    IF Len(buf) = 0 THEN [ok |-> TRUE, tail |-> <<>>]
    ELSE LET d == DecodeRune(buf) IN
         IF ~d.valid /\ d.size = 1
         THEN IF Len(buf) < UTFMax /\ ~FullRune(buf)
              THEN [ok |-> TRUE, tail |-> buf]
              ELSE [ok |-> FALSE, tail |-> <<>>]
         ELSE FeedUTF8(SubSeq(buf, d.size + 1, Len(buf)))

\* strings.ReplaceAll(s, "\r\n", "\n")
RECURSIVE ReplaceCRLF(_)
ReplaceCRLF(s) ==
    IF Len(s) = 0 THEN <<>>
    ELSE IF Len(s) >= 2 /\ s[1] = "CR" /\ s[2] = "LF"
         THEN <<"LF">> \o ReplaceCRLF(SubSeq(s, 3, Len(s)))
         ELSE <<s[1]>> \o ReplaceCRLF(Tail(s))

NormalizeNewlines(s) ==
    LET t == ReplaceCRLF(s) IN
    [i \in 1..Len(t) |-> IF t[i] = "CR" THEN "LF" ELSE t[i]]

\* fmt.Sprintf("U+2026 [TRUNCATED: original_lines=%d kept_lines=%d]\n", ...);
\* the ellipsis rune is written "U+2026".
Marker(origLines, keptLines) ==
    <<"U+2026", " [TRUNCATED: original_lines=", ToString(origLines),
      " kept_lines=", ToString(keptLines), "]", "LF">>

(***************************************************************************)
(* readAndTruncateFile: the streaming state machine, one Feed per byte.    *)
(***************************************************************************)
EngineInit ==
    [origLines |-> 0, keptLines |-> 0, truncated |-> FALSE, seenAny |-> FALSE,
     lastByteWasNL |-> FALSE, lineBuf |-> <<>>, keptByteCount |-> 0,
     utf8ValidatorBuf |-> <<>>, countOnly |-> FALSE, kept |-> <<>>,
     failed |-> ""]

\* flushLine with the byte-limit test left out.
flushLineNoByteLimit(st, force, lineBudget, byteBudget) ==
    LET fits == st.keptLines < lineBudget
        st1 == [st EXCEPT !.origLines = @ + 1,
                          !.kept = IF fits THEN @ \o st.lineBuf ELSE @,
                          !.keptLines = IF fits THEN @ + 1 ELSE @,
                          !.keptByteCount = IF fits THEN @ + Len(st.lineBuf) ELSE @,
                          !.truncated = IF fits THEN @ ELSE TRUE,
                          !.lineBuf = <<>>]
    IN  IF (st1.keptLines >= lineBudget \/ st1.keptByteCount >= byteBudget)
           /\ st1.truncated
        THEN [st1 EXCEPT !.countOnly = TRUE]
        ELSE st1

\* flushLine that does not mark the entry when a line is not kept.
flushLineSilentDrop(st, force, lineBudget, byteBudget) ==
    IF Len(st.lineBuf) = 0 /\ ~force THEN st
    ELSE
    LET fits == st.keptLines < lineBudget
                /\ st.keptByteCount + Len(st.lineBuf) <= byteBudget
    IN  [st EXCEPT !.origLines = @ + 1,
                   !.kept = IF fits THEN @ \o st.lineBuf ELSE @,
                   !.keptLines = IF fits THEN @ + 1 ELSE @,
                   !.keptByteCount = IF fits THEN @ + Len(st.lineBuf) ELSE @,
                   !.lineBuf = <<>>]

flushLine(st, force, lineBudget, byteBudget) ==
    IF Len(st.lineBuf) = 0 /\ ~force THEN st
    ELSE
    LET fits == st.keptLines < lineBudget
                /\ st.keptByteCount + Len(st.lineBuf) <= byteBudget
        st1 == [st EXCEPT !.origLines = @ + 1,
                          !.kept = IF fits THEN @ \o st.lineBuf ELSE @,
                          !.keptLines = IF fits THEN @ + 1 ELSE @,
                          !.keptByteCount = IF fits THEN @ + Len(st.lineBuf) ELSE @,
                          !.truncated = IF fits THEN @ ELSE TRUE,
                          !.lineBuf = <<>>]
    IN  IF (st1.keptLines >= lineBudget \/ st1.keptByteCount >= byteBudget)
           /\ st1.truncated
        THEN [st1 EXCEPT !.countOnly = TRUE]
        ELSE st1

\* FeedByte that does not count the lines it sees in count-only mode.
FeedByteCountOnlySkips(st, b, lineBudget, byteBudget) ==
    LET fed == FeedUTF8(Append(st.utf8ValidatorBuf, b))
        st1 == [st EXCEPT !.seenAny = TRUE,
                          !.lastByteWasNL = (b = "LF"),
                          !.utf8ValidatorBuf = fed.tail]
    IN  IF ~fed.ok THEN [st EXCEPT !.failed = "invalid_utf8"]
        ELSE IF st1.countOnly THEN st1
        ELSE LET st2 == [st1 EXCEPT !.lineBuf = Append(@, b)] IN
             IF st2.keptLines >= lineBudget \/ st2.keptByteCount >= byteBudget
             THEN [st2 EXCEPT !.truncated = TRUE,
                              !.countOnly = TRUE,
                              !.lineBuf = <<>>,
                              !.origLines = IF b = "LF" THEN @ + 1 ELSE @]
             ELSE IF b = "LF" THEN flushLine(st2, TRUE, lineBudget, byteBudget)
                  ELSE st2

\* FeedByte that validates UTF-8 only while it still buffers content.
FeedByteValidatesKeptOnly(st, b, lineBudget, byteBudget) ==
    LET fed == IF st.countOnly THEN [ok |-> TRUE, tail |-> <<>>]
               ELSE FeedUTF8(Append(st.utf8ValidatorBuf, b))
        st1 == [st EXCEPT !.seenAny = TRUE,
                          !.lastByteWasNL = (b = "LF"),
                          !.utf8ValidatorBuf = fed.tail]
    IN  IF ~fed.ok THEN [st EXCEPT !.failed = "invalid_utf8"]
        ELSE IF st1.countOnly
        THEN IF b = "LF" THEN [st1 EXCEPT !.origLines = @ + 1] ELSE st1
        ELSE LET st2 == [st1 EXCEPT !.lineBuf = Append(@, b)] IN
             IF st2.keptLines >= lineBudget \/ st2.keptByteCount >= byteBudget
             THEN [st2 EXCEPT !.truncated = TRUE,
                              !.countOnly = TRUE,
                              !.lineBuf = <<>>,
                              !.origLines = IF b = "LF" THEN @ + 1 ELSE @]
             ELSE IF b = "LF" THEN flushLine(st2, TRUE, lineBudget, byteBudget)
                  ELSE st2

\* The body of the read loop for one byte b (errors.go 873-908).
FeedByte(st, b, lineBudget, byteBudget) ==
    LET fed == FeedUTF8(Append(st.utf8ValidatorBuf, b))
        st1 == [st EXCEPT !.seenAny = TRUE,
                          !.lastByteWasNL = (b = "LF"),
                          !.utf8ValidatorBuf = fed.tail]
    IN  IF ~fed.ok THEN [st EXCEPT !.failed = "invalid_utf8"]
        ELSE IF st1.countOnly
        THEN IF b = "LF" THEN [st1 EXCEPT !.origLines = @ + 1] ELSE st1
        ELSE LET st2 == [st1 EXCEPT !.lineBuf = Append(@, b)] IN
             IF st2.keptLines >= lineBudget \/ st2.keptByteCount >= byteBudget
             THEN [st2 EXCEPT !.truncated = TRUE,
                              !.countOnly = TRUE,
                              !.lineBuf = <<>>,
                              !.origLines = IF b = "LF" THEN @ + 1 ELSE @]
             ELSE IF b = "LF" THEN flushLine(st2, TRUE, lineBudget, byteBudget)
                  ELSE st2

RECURSIVE ReadLoop(_, _, _, _)
ReadLoop(st, bytes, lineBudget, byteBudget) ==
    IF Len(bytes) = 0 \/ st.failed # "" THEN st
    ELSE ReadLoop(FeedByte(st, Head(bytes), lineBudget, byteBudget),
                  Tail(bytes), lineBudget, byteBudget)

\* What the engine returns when it fails: FileEntry{} and the error.
FailedEntry(e) ==
    [failed |-> e, OriginalLines |-> 0, OriginalBytes |-> 0, KeptLines |-> 0,
     KeptBytes |-> 0, Truncated |-> FALSE, Content |-> <<>>]

\* After the loop: the end-of-file checks and the FileEntry (errors.go 911-944).
FinishEntry(st0, nbytes, lineBudget, byteBudget) ==
    IF st0.failed # "" THEN FailedEntry(st0.failed)
    ELSE IF Len(st0.utf8ValidatorBuf) # 0 THEN FailedEntry("invalid_utf8")
    ELSE
    LET st == IF st0.seenAny /\ ~st0.lastByteWasNL
              THEN IF st0.countOnly
                   THEN [st0 EXCEPT !.origLines = @ + 1]
                   ELSE flushLine(st0, TRUE, lineBudget, byteBudget)
              ELSE st0
        content == NormalizeNewlines(st.kept)
    IN  [failed |-> "",
         OriginalLines |-> st.origLines,
         OriginalBytes |-> nbytes,
         KeptLines |-> st.keptLines,
         KeptBytes |-> Len(st.kept),
         Truncated |-> st.truncated,
         Content |-> IF st.truncated
                     THEN content \o Marker(st.origLines, st.keptLines)
                     ELSE content]

\* ioerr: "none", or the call that fails: "stat", "open", or "read" (a read
\* error after the given bytes were delivered).
readAndTruncateFile(bytes, ioerr, maxLines, maxBytes) ==
    IF ioerr \in {"stat", "open"} THEN FailedEntry("unreadable")
    ELSE LET st == ReadLoop(EngineInit, bytes, maxLines, maxBytes) IN
         IF st.failed = "" /\ ioerr = "read" THEN FailedEntry("unreadable")
         ELSE FinishEntry(st, Len(bytes), maxLines, maxBytes)

NoEntry == FailedEntry("none")

(***************************************************************************)
(* SpecTrunc: the truncation engine applied to enumerated files.           *)
(***************************************************************************)
\* content of TestPerFileTruncationByLines: five lines, each terminated.
FiveLines == <<"a", "LF", "a", "LF", "a", "LF", "a", "LF", "a", "LF">>

\* per_file_max_bytes of the default configuration.
DefaultPerFileMaxBytes == 262144

TruncFiles == SeqsUpTo(Bytes, MaxLen) \cup {FiveLines}

LineLimits == 1..MaxLineLimit

ByteLimits == (1..MaxByteLimit) \cup {DefaultPerFileMaxBytes}

IdlePlan ==
    [EnabledSlices |-> <<>>, Included |-> <<>>, Dropped |-> <<>>,
     DroppedSlices |-> <<>>, Partial |-> FALSE, HardCut |-> FALSE]

NoText == [body |-> 0, marker |-> FALSE]

DiscIdle ==
    /\ dpc = "idle"
    /\ tree = <<>>
    /\ discovered = <<>>

EnIdle ==
    /\ epc = "idle"
    /\ eIn = <<>>
    /\ eOut = <<>>

CtrIdle ==
    /\ cproc = <<>>
    /\ counterFile = 0
    /\ obtained = <<>>

NoEffects == [walked |-> FALSE, written |-> <<>>]

NoReturn == [code |-> -1, OutputPath |-> "", Partial |-> FALSE, HardCut |-> FALSE]

RunIdle ==
    /\ rpc = "off"
    /\ opts = <<>>
    /\ runNo = 0
    /\ effects = NoEffects
    /\ ret = NoReturn
    /\ first = <<>>

AtomIdle ==
    /\ apc = "off"
    /\ adisk = <<>>
    /\ aw = <<>>

ApplyIdle ==
    /\ ypc = "off"
    /\ yIn = <<>>
    /\ yFiles = <<>>
    /\ yOut = <<>>

ToolIdle == AtomIdle /\ ApplyIdle

AuxIdle == DiscIdle /\ EnIdle /\ CtrIdle /\ RunIdle /\ ToolIdle

PipeIdle ==
    /\ pc = "idle"
    /\ cfg = [pri |-> <<>>, maxChars |-> 0, maxLines |-> 0, maxBytes |-> 0,
              includeHidden |-> FALSE]
    /\ enabled = {}
    /\ fs = <<>>
    /\ selected = [Included |-> <<>>, Dropped |-> <<>>]
    /\ plan = IdlePlan
    /\ basePlan = IdlePlan
    /\ keep = {}
    /\ dropIdx = 0
    /\ nRenders = 0
    /\ lastRender = 0
    /\ text = NoText
    /\ err = ""
    /\ ctxDone = FALSE

TruncIdle ==
    /\ tpc = "idle"
    /\ tIn = [bytes |-> <<>>, ioerr |-> "none", maxLines |-> 0, maxBytes |-> 0]
    /\ tOut = NoEntry
    /\ tOut2 = NoEntry

InitTrunc ==
    /\ tpc = "start"
    /\ \E b \in TruncFiles, ml \in LineLimits, mb \in ByteLimits :
         \E e \in (IF Len(b) <= 1 THEN {"none", "stat", "open", "read"} ELSE {"none"}) :
            tIn = [bytes |-> b, ioerr |-> e, maxLines |-> ml, maxBytes |-> mb]
    /\ tOut = NoEntry
    /\ tOut2 = NoEntry
    /\ PipeIdle
    /\ AuxIdle

\* One call of the engine on the file.
TruncRun ==
    /\ tpc = "start"
    /\ tOut' = readAndTruncateFile(tIn.bytes, tIn.ioerr, tIn.maxLines, tIn.maxBytes)
    /\ tpc' = "ran"
    /\ UNCHANGED <<tIn, tOut2>>
    /\ UNCHANGED pipeVars
    /\ UNCHANGED auxVars

\* The engine again, on the Content it produced, with the same limits.
TruncRerun ==
    /\ tpc = "ran"
    /\ tOut.failed = ""
    /\ ~tOut.Truncated
    /\ tOut2' = readAndTruncateFile(tOut.Content, "none", tIn.maxLines, tIn.maxBytes)
    /\ tpc' = "reran"
    /\ UNCHANGED <<tIn, tOut>>
    /\ UNCHANGED pipeVars
    /\ UNCHANGED auxVars

NextTrunc == TruncRun \/ TruncRerun

SpecTrunc == InitTrunc /\ [][NextTrunc]_vars

(***************************************************************************)
(* Configuration and file tree of the pipeline runs.                       *)
(***************************************************************************)
\* Slice names, in ascending string order.
SliceOrder == <<"api", "docs", "tests">>

Slices == {SliceOrder[i] : i \in 1..Len(SliceOrder)}

\* Rank of a slice name in ascending string order; the empty string is smallest.
NameRank(s) == IF s = "" THEN 0 ELSE CHOOSE i \in 1..Len(SliceOrder) : SliceOrder[i] = s

\* s < t on slice names.
NameLess(s, t) == NameRank(s) < NameRank(t)

\* bestP := -1 << 30 in primary.
MinPri == -1073741824

\* Slice priorities a configuration may give (any int passes Validate).
Priorities == {MinPri, 1, 2}

\* Relative paths of the discovered files, in ascending byte order.
PathOrder == <<".github/ci.yml", "a.go", "docs/r.md">>

Paths == {PathOrder[i] : i \in 1..Len(PathOrder)}

PathRank(p) == CHOOSE i \in 1..Len(PathOrder) : PathOrder[i] = p

\* strings.Split(rel, "/")
Segs(p) ==
    CASE p = ".github/ci.yml" -> <<".github", "ci.yml">>
      [] p = "a.go"           -> <<"a.go">>
      [] p = "docs/r.md"      -> <<"docs", "r.md">>
      [] p = "**/*"           -> <<"**", "*">>
      [] p = ".github/**"     -> <<".github", "**">>
      [] p = "docs/**"        -> <<"docs", "**">>
      [] p = "docs/"          -> <<"docs", "">>
      [] p = ".github/"       -> <<".github", "">>
      [] OTHER                -> <<p>>

\* strings.HasPrefix(seg, ".")
HasDotPrefix(seg) == seg \in {".github", ".", ".."}

\* discovery.isHiddenRel
isHiddenRel(rel) ==
    \E i \in 1..Len(Segs(rel)) :
        LET seg == Segs(rel)[i] IN
        seg \notin {"", ".", ".."} /\ HasDotPrefix(seg)

\* The include and exclude globs of each slice.
SliceInclude(s) ==
    CASE s = "api"   -> <<"**/*">>
      [] s = "docs"  -> <<"docs/**", ".github/**">>
      [] s = "tests" -> <<"**/*", ".github/**">>

SliceExclude(s) ==
    CASE s = "api"   -> <<>>
      [] s = "docs"  -> <<>>
      [] s = "tests" -> <<"docs/**">>

\* doublestar.Match on slash-separated segments: "**" matches zero or more
\* segments, "*" one whole segment, any other segment itself.
RECURSIVE GlobMatch(_, _)
GlobMatch(pat, path) ==
    IF Len(pat) = 0 THEN Len(path) = 0
    ELSE IF pat[1] = "**"
         THEN GlobMatch(Tail(pat), path)
              \/ (Len(path) > 0 /\ GlobMatch(pat, Tail(path)))
         ELSE /\ Len(path) > 0
              /\ (pat[1] = "*" \/ pat[1] = path[1])
              /\ GlobMatch(Tail(pat), Tail(path))

Match(pat, rel) == GlobMatch(Segs(pat), Segs(rel))

patternExplicitlyIncludesHidden(pat) ==
    \E i \in 1..Len(Segs(pat)) :
        LET seg == Segs(pat)[i] IN
        seg # "" /\ HasDotPrefix(seg) /\ seg # "." /\ seg # ".."

matchesAny(rel, patterns) ==
    LET hits == {i \in 1..Len(patterns) : patterns[i] # "" /\ Match(patterns[i], rel)}
    IN  [matched |-> hits # {},
         explicitHidden |-> \E i \in hits : patternExplicitlyIncludesHidden(patterns[i])]

\* The names of S as a sequence in ascending order (sort.Strings).
SortedNames(S) ==
    LET idx == {i \in 1..Len(SliceOrder) : SliceOrder[i] \in S}
        F[k \in 0..Len(SliceOrder)] ==
            IF k = 0 THEN <<>>
            ELSE IF k \in idx THEN Append(F[k - 1], SliceOrder[k]) ELSE F[k - 1]
    IN  F[Len(SliceOrder)]

\* isMember without the test on hidden paths.
isMemberIgnoresHidden(s, rel, isHidden, includeHidden) ==
    /\ matchesAny(rel, SliceInclude(s)).matched
    /\ ~matchesAny(rel, SliceExclude(s)).matched

isMember(s, rel, isHidden, includeHidden) ==
    LET inc == matchesAny(rel, SliceInclude(s)) IN
    /\ inc.matched
    /\ ~(isHidden /\ ~includeHidden /\ ~inc.explicitHidden)
    /\ ~matchesAny(rel, SliceExclude(s)).matched

membership(en, rel, isHidden, includeHidden) ==
    SortedNames({s \in en : isMember(s, rel, isHidden, includeHidden)})

\* primary: the loop over mem from best = "", bestP = -1 << 30.
RECURSIVE primaryLoop(_, _, _, _)
primaryLoop(mem, pri, best, bestP) ==
    IF Len(mem) = 0 THEN [slice |-> best, priority |-> bestP]
    ELSE LET s == Head(mem)
             p == pri[s]
         IN  IF p > bestP \/ (p = bestP /\ NameLess(s, best))
             THEN primaryLoop(Tail(mem), pri, s, p)
             ELSE primaryLoop(Tail(mem), pri, best, bestP)

primary(mem, pri) == primaryLoop(mem, pri, "", MinPri)

\* EnabledSliceList: priority descending, then name ascending.
EnabledSliceList(en, pri) ==
    SortSeq(SortedNames(en),
            LAMBDA x, y : pri[x] > pri[y] \/ (pri[x] = pri[y] /\ NameLess(x, y)))

\* selectedFiles that does not look at the classifier's verdict.
selectedFilesIgnoresExcluded(c, en, files) ==
    LET info(p) ==
            LET mem == membership(en, p, isHiddenRel(p), c.includeHidden)
                pr == primary(mem, c.pri)
            IN  [RelPath |-> p, Slices |-> mem, PrimarySlice |-> pr.slice,
                 PrimaryPriority |-> pr.priority,
                 Excluded |-> files[p].reason # "",
                 ExclusionReason |-> files[p].reason]
        F[k \in 0..Len(PathOrder)] ==
            IF k = 0 THEN [Included |-> <<>>, Dropped |-> <<>>]
            ELSE LET f == info(PathOrder[k]) IN
                 IF Len(f.Slices) = 0 THEN F[k - 1]
                 ELSE [F[k - 1] EXCEPT !.Included = Append(@, f)]
    IN  F[Len(PathOrder)]

\* selectedFiles that puts an excluded file in Dropped before looking at
\* its membership.
selectedFilesDropsNonMembers(c, en, files) ==
    LET info(p) ==
            LET mem == membership(en, p, isHiddenRel(p), c.includeHidden)
                pr == primary(mem, c.pri)
            IN  [RelPath |-> p, Slices |-> mem, PrimarySlice |-> pr.slice,
                 PrimaryPriority |-> pr.priority,
                 Excluded |-> files[p].reason # "",
                 ExclusionReason |-> files[p].reason]
        F[k \in 0..Len(PathOrder)] ==
            IF k = 0 THEN [Included |-> <<>>, Dropped |-> <<>>]
            ELSE LET f == info(PathOrder[k]) IN
                 IF f.Excluded
                 THEN [F[k - 1] EXCEPT !.Dropped = Append(@, f)]
                 ELSE IF Len(f.Slices) = 0 THEN F[k - 1]
                      ELSE [F[k - 1] EXCEPT !.Included = Append(@, f)]
    IN  F[Len(PathOrder)]

\* Select's loop over the discovered files, then the two sorts by RelPath.
selectedFiles(c, en, files) ==
    LET info(p) ==
            LET mem == membership(en, p, isHiddenRel(p), c.includeHidden)
                pr == primary(mem, c.pri)
            IN  [RelPath |-> p, Slices |-> mem, PrimarySlice |-> pr.slice,
                 PrimaryPriority |-> pr.priority,
                 Excluded |-> files[p].reason # "",
                 ExclusionReason |-> files[p].reason]
        F[k \in 0..Len(PathOrder)] ==
            IF k = 0 THEN [Included |-> <<>>, Dropped |-> <<>>]
            ELSE LET f == info(PathOrder[k]) IN
                 IF Len(f.Slices) = 0 THEN F[k - 1]
                 ELSE IF f.Excluded
                      THEN [F[k - 1] EXCEPT !.Dropped = Append(@, f)]
                      ELSE [F[k - 1] EXCEPT !.Included = Append(@, f)]
    IN  F[Len(PathOrder)]

(***************************************************************************)
(* budget: BuildPlan and the helpers of EnforceGlobalBudget.               *)
(***************************************************************************)
\* len([]rune("\n... [BUNDLE TRUNCATED: budget_exceeded]\n"))
MarkerLen == 39

DroppedEntry(f, reason) ==
    [RelPath |-> f.RelPath, Slices |-> f.Slices, PrimarySlice |-> f.PrimarySlice,
     Reason |-> reason]

FileEntry(f, priority, e) ==
    [RelPath |-> f.RelPath, Slices |-> f.Slices, PrimarySlice |-> f.PrimarySlice,
     Priority |-> priority,
     OriginalLines |-> e.OriginalLines, OriginalBytes |-> e.OriginalBytes,
     KeptLines |-> e.KeptLines, KeptBytes |-> e.KeptBytes,
     Truncated |-> e.Truncated, Content |-> e.Content]

\* orderPlan: Included by priority descending then RelPath, Dropped by RelPath.
orderPlan(p) ==
    [p EXCEPT
       !.Included = SortSeq(@, LAMBDA x, y :
                       x.Priority > y.Priority
                       \/ (x.Priority = y.Priority
                           /\ PathRank(x.RelPath) < PathRank(y.RelPath))),
       !.Dropped = SortSeq(@, LAMBDA x, y : PathRank(x.RelPath) < PathRank(y.RelPath))]

\* BuildPlan, lines 594-606: the excluded candidates of enabled slices.
recordExcluded(p, dropped) ==
    [p EXCEPT
       !.Dropped = [i \in 1..Len(dropped) |->
                       DroppedEntry(dropped[i], dropped[i].ExclusionReason)],
       !.Partial = \E i \in 1..Len(dropped) : dropped[i].ExclusionReason = "unreadable"]

\* buildOne that records an invalid UTF-8 file without marking the plan partial.
buildOneForgetsPartial(p, f, files, maxLines, maxBytes) ==
    LET e == readAndTruncateFile(files[f.RelPath].bytes, files[f.RelPath].ioerr,
                                 maxLines, maxBytes)
    IN  IF e.failed = "invalid_utf8"
        THEN [p EXCEPT !.Dropped = Append(@, DroppedEntry(f, "invalid_utf8"))]
        ELSE IF e.failed # ""
        THEN [p EXCEPT !.Dropped = Append(@, DroppedEntry(f, "unreadable")),
                       !.Partial = TRUE]
        ELSE [p EXCEPT !.Included = Append(@, FileEntry(f, f.PrimaryPriority, e))]

\* BuildPlan, lines 612-636: one iteration of the loop over selected.Included.
buildOne(p, f, files, maxLines, maxBytes) ==
    LET e == readAndTruncateFile(files[f.RelPath].bytes, files[f.RelPath].ioerr,
                                 maxLines, maxBytes)
    IN  IF e.failed = "invalid_utf8"
        THEN [p EXCEPT !.Dropped = Append(@, DroppedEntry(f, "invalid_utf8")),
                       !.Partial = TRUE]
        ELSE IF e.failed # ""
        THEN [p EXCEPT !.Dropped = Append(@, DroppedEntry(f, "unreadable")),
                       !.Partial = TRUE]
        ELSE [p EXCEPT !.Included = Append(@, FileEntry(f, f.PrimaryPriority, e))]

RECURSIVE buildLoop(_, _, _, _, _)
buildLoop(p, incl, files, maxLines, maxBytes) ==
    IF Len(incl) = 0 THEN p
    ELSE buildLoop(buildOne(p, Head(incl), files, maxLines, maxBytes),
                   Tail(incl), files, maxLines, maxBytes)

BuildPlanResult(c, enabledOrdered, sel, files) ==
    LET p0 == [IdlePlan EXCEPT !.EnabledSlices = enabledOrdered]
        p1 == recordExcluded(p0, sel.Dropped)
    IN  orderPlan(buildLoop(p1, sel.Included, files, c.maxLines, c.maxBytes))

\* orderedSlices sorted from the highest priority down.
orderedSlicesHighFirst(enabledSlices, pri) ==
    SortSeq(enabledSlices,
            LAMBDA x, y : pri[x] > pri[y] \/ (pri[x] = pri[y] /\ NameLess(x, y)))

\* The drop order: priority ascending, then name ascending (lines 667-675).
orderedSlices(enabledSlices, pri) ==
    SortSeq(enabledSlices,
            LAMBDA x, y : pri[x] < pri[y] \/ (pri[x] = pri[y] /\ NameLess(x, y)))

\* countKeptSlices as len(keep): the false entries are counted too.
countKeptSlicesAll(kp) == Cardinality(enabled)

\* keep is the set of slices whose entry in the keep map is true.
countKeptSlices(kp) == Cardinality(kp)

filterIncludedByKept(in, kp) == SelectSeq(in, LAMBDA f : f.PrimarySlice \in kp)

\* droppedFromRemovedSlices that skips the files whose slice was removed
\* (the test on keep inverted).
droppedFromRemovedSlicesInverted(in, kp) ==
    LET gone == SelectSeq(in, LAMBDA f : f.PrimarySlice \in kp)
    IN  [i \in 1..Len(gone) |-> DroppedEntry(gone[i], "budget_exceeded")]

droppedFromRemovedSlices(in, kp) ==
    LET gone == SelectSeq(in, LAMBDA f : f.PrimarySlice \notin kp)
    IN  [i \in 1..Len(gone) |-> DroppedEntry(gone[i], "budget_exceeded")]

\* A text is a prefix of body runes of a rendered text, then the bundle
\* marker or not.
runeCount(t) == t.body + (IF t.marker THEN MarkerLen ELSE 0)

\* A rendered text that carries the bundle-truncated marker.
RenderedWithMarker(n) == [body |-> n, marker |-> TRUE]

Rendered(n) == [body |-> n, marker |-> FALSE]

\* hardCutRunes on a rendered text of n runes: the runes that remain.
hardCutRunes(n, max) ==
    IF max <= 0 THEN 0
    ELSE IF n <= max THEN n ELSE max

\* Lines 739-749: the hard cut of the last rendered text r3.
hardCutText(r3, maxChars) ==
    [body |-> hardCutRunes(r3, maxChars - MarkerLen), marker |-> TRUE]

\* Lines 707-729: the re-truncation of the included files; failing is the
\* set of paths whose re-read fails.
RECURSIVE tightenLoop(_, _, _, _, _, _)
tightenLoop(t, incl, files, failing, newMaxLines, maxBytes) ==
    IF Len(incl) = 0 THEN t
    ELSE LET f == Head(incl)
             e == readAndTruncateFile(files[f.RelPath].bytes,
                                      IF f.RelPath \in failing THEN "open"
                                      ELSE files[f.RelPath].ioerr,
                                      newMaxLines, maxBytes)
             t1 == IF e.failed # ""
                   THEN [t EXCEPT !.Dropped = Append(@, DroppedEntry(f, "unreadable")),
                                  !.Partial = TRUE]
                   ELSE [t EXCEPT !.Included = Append(@, FileEntry(f, f.Priority, e))]
         IN  tightenLoop(t1, Tail(incl), files, failing, newMaxLines, maxBytes)

\* The files that may have become unreadable since BuildPlan read them:
\* none, or one of the included files; none when the root does not change
\* while Run executes (SpecRun).
RereadFailures(p) ==
    IF rpc # "off" THEN {{}}
    ELSE {{}} \cup {{p.Included[i].RelPath} : i \in 1..Len(p.Included)}

\* The line limit of the tightening step left as it was.
newMaxLinesUnhalved(perFileMaxLines) == perFileMaxLines

newMaxLines(perFileMaxLines) == Max(1, perFileMaxLines \div 2)

tightened(p2, files, failing, c) ==
    orderPlan(tightenLoop([p2 EXCEPT !.Included = <<>>], p2.Included, files,
                          failing, newMaxLines(c.maxLines), c.maxBytes))

(***************************************************************************)
(* Spec: one run of the pipeline.                                          *)
(***************************************************************************)
\* budgets.max_chars of the enumerated configurations (Validate: > 0).
MaxCharsChoices == {10, 39, 45}

\* budgets.per_file_max_lines of the enumerated configurations.
PipeLineLimits == {1, 4}

\* Rune counts the render callback may return.
RenderLens == {5, 42, 60}

\* render.Renderer.RenderMarkdown measured in runes: the header (whose
\* timestamp line ends at rune StampEnd), a manifest line for each dropped
\* slice and each dropped file, and a block for each included file holding
\* its Content.  The sizes of the fixed parts are scaled down to the sizes
\* of the enumerated files.
HeaderRunes == 8

StampEnd == 7

BlockRunes == 6

DroppedLineRunes == 2

RECURSIVE blocksRunes(_)
blocksRunes(included) ==
    IF Len(included) = 0 THEN 0
    ELSE BlockRunes + Len(Head(included).Content) + blocksRunes(Tail(included))

RenderMarkdownRunes(p) ==
    HeaderRunes + DroppedLineRunes * (Len(p.DroppedSlices) + Len(p.Dropped))
    + blocksRunes(p.Included)

\* RenderOutcomes for a callback whose text is not a function of the plan.
RenderOutcomesAnyText(p) == RenderLens

\* What a call of the render callback on plan p may return: any text for
\* EnforceGlobalBudget on its own, the text of RenderMarkdown inside Run.
RenderOutcomes(p) == IF rpc = "off" THEN RenderLens ELSE {RenderMarkdownRunes(p)}

\* Slice priorities of the enumerated pipeline configurations.
PipePriorities == {1, 2}

File(reason, bytes, ioerr) == [reason |-> reason, bytes |-> bytes, ioerr |-> ioerr]

\* What each discovered file may be: its classification by the discovery
\* engine ("" for an included candidate), its bytes, and the I/O call that
\* fails when it is read.
FileKinds(p) ==
    CASE p = "a.go" ->
           {File("", FiveLines, "none"),
            File("", <<"a", "LF", "a", "LF", "XX">>, "none"),
            File("", <<"a", "LF">>, "open"),
            File("excluded_binary", <<"a", "LF">>, "none")}
      [] p = "docs/r.md" ->
           {File("", <<"a", "LF">>, "none"),
            File("", <<"a", "a", "a", "L2">>, "none"),
            File("excluded_sensitive", <<"a", "LF">>, "none")}
      [] p = ".github/ci.yml" ->
           {File("", <<"a", "CR", "LF", "a">>, "none"),
            File("", <<"a", "LF">>, "read"),
            File("unreadable", <<>>, "stat")}

Init ==
    /\ TruncIdle
    /\ AuxIdle
    /\ pc = "select"
    /\ cfg \in [pri : [Slices -> PipePriorities], maxChars : MaxCharsChoices,
                maxLines : PipeLineLimits, maxBytes : {DefaultPerFileMaxBytes},
                includeHidden : BOOLEAN]
    /\ enabled \in SUBSET Slices
    /\ fs \in {f \in [Paths -> UNION {FileKinds(p) : p \in Paths}] :
                 \A p \in Paths : f[p] \in FileKinds(p)}
    /\ selected = [Included |-> <<>>, Dropped |-> <<>>]
    /\ plan = IdlePlan
    /\ basePlan = IdlePlan
    /\ keep = {}
    /\ dropIdx = 0
    /\ nRenders = 0
    /\ lastRender = 0
    /\ text = NoText
    /\ err = ""
    /\ ctxDone = FALSE

\* A return with an error that leaves the plan and the text as they were.
FailKeepsPlan(e) ==
    /\ pc' = "done"
    /\ err' = e
    /\ UNCHANGED <<plan, text>>

\* A return with an error: Plan{}, "", err.
Fail(e) ==
    /\ pc' = "done"
    /\ err' = e
    /\ plan' = IdlePlan
    /\ text' = NoText

\* The render callback is called and returns a text of r runes.
RenderReturns(r) ==
    /\ nRenders' = nRenders + 1
    /\ lastRender' = r

\* The render callback is called and returns an error.
RenderFails ==
    /\ nRenders' = nRenders + 1
    /\ lastRender' = 0

\* The context is cancelled while the run is under way.
Cancel ==
    /\ pc \notin {"idle", "done"}
    /\ ~ctxDone
    /\ ctxDone' = TRUE
    /\ UNCHANGED <<pc, cfg, enabled, fs, selected, plan, basePlan, keep, dropIdx,
                   nRenders, lastRender, text, err>>
    /\ UNCHANGED truncVars
    /\ UNCHANGED auxVars

\* selector.Select
Select ==
    /\ pc = "select"
    /\ IF enabled = {}
       THEN /\ Fail("no enabled slices")
            /\ UNCHANGED selected
       ELSE /\ selected' = selectedFiles(cfg, enabled, fs)
            /\ pc' = "build"
            /\ UNCHANGED <<plan, text, err>>
    /\ UNCHANGED <<cfg, enabled, fs, basePlan, keep, dropIdx, nRenders, lastRender,
                   ctxDone>>
    /\ UNCHANGED truncVars
    /\ UNCHANGED auxVars

\* Builder.BuildPlan
BuildPlan ==
    /\ pc = "build"
    /\ IF ctxDone /\ Len(selected.Included) > 0
       THEN Fail("context")
       ELSE /\ plan' = BuildPlanResult(cfg, EnabledSliceList(enabled, cfg.pri),
                                       selected, fs)
            /\ pc' = "enforce"
            /\ UNCHANGED <<text, err>>
    /\ UNCHANGED <<cfg, enabled, fs, selected, basePlan, keep, dropIdx, nRenders,
                   lastRender, ctxDone>>
    /\ UNCHANGED truncVars
    /\ UNCHANGED auxVars

\* EnforceGlobalBudget, lines 651-680: the first render, and the set-up of
\* the drop loop when the text is over budget.
EnforceStart ==
    /\ pc = "enforce"
    /\ basePlan' = plan
    /\ \/ /\ ctxDone
          /\ Fail("context")
          /\ UNCHANGED <<nRenders, lastRender, keep, dropIdx>>
       \/ /\ ~ctxDone
          /\ Fail("render")
          /\ RenderFails
          /\ UNCHANGED <<keep, dropIdx>>
       \/ /\ ~ctxDone
          /\ \E r \in RenderOutcomes(plan) :
               /\ RenderReturns(r)
               /\ IF r <= cfg.maxChars
                  THEN /\ pc' = "done"
                       /\ text' = Rendered(r)
                       /\ UNCHANGED <<plan, keep, dropIdx, err>>
                  ELSE /\ pc' = "drop"
                       /\ plan' = [plan EXCEPT !.Partial = TRUE,
                                               !.DroppedSlices = <<>>]
                       /\ keep' = {plan.EnabledSlices[i] :
                                      i \in 1..Len(plan.EnabledSlices)}
                       /\ dropIdx' = 1
                       /\ UNCHANGED <<text, err>>
    /\ UNCHANGED <<cfg, enabled, fs, selected, ctxDone>>
    /\ UNCHANGED truncVars
    /\ UNCHANGED auxVars

\* A drop loop that is left before its first round.
dropLoopSkipped == FALSE

\* Whether the drop loop goes round once more (lines 682-689).
dropLoopGoesOn ==
    /\ dropIdx <= Len(basePlan.EnabledSlices)
    /\ (ctxDone \/ countKeptSlices(keep) > 1)

\* One iteration of the drop loop (lines 682-704).
DropStep ==
    /\ pc = "drop"
    /\ dropLoopGoesOn
    /\ \/ /\ ctxDone
          /\ Fail("context")
          /\ UNCHANGED <<nRenders, lastRender, keep, dropIdx>>
       \/ /\ ~ctxDone
          /\ LET dropSlice == orderedSlices(basePlan.EnabledSlices, cfg.pri)[dropIdx]
                 keep2 == keep \ {dropSlice}
                 p2 == orderPlan(
                         [plan EXCEPT
                            !.DroppedSlices = Append(@, dropSlice),
                            !.Included = filterIncludedByKept(basePlan.Included, keep2),
                            !.Dropped = @ \o droppedFromRemovedSlices(basePlan.Included,
                                                                      keep2)])
             IN  /\ keep' = keep2
                 /\ dropIdx' = dropIdx + 1
                 /\ \/ /\ Fail("render")
                       /\ RenderFails
                    \/ \E r \in RenderOutcomes(p2) :
                         /\ RenderReturns(r)
                         /\ plan' = p2
                         /\ err' = err
                         /\ IF r <= cfg.maxChars
                            THEN pc' = "done" /\ text' = Rendered(r)
                            ELSE pc' = "drop" /\ text' = text
    /\ UNCHANGED <<cfg, enabled, fs, selected, basePlan, ctxDone>>
    /\ UNCHANGED truncVars
    /\ UNCHANGED auxVars

\* Lines 706-736: tighten the per-file truncation once and render again.
Tighten ==
    /\ pc = "drop"
    /\ ~dropLoopGoesOn
    /\ \/ /\ ctxDone
          /\ Len(plan.Included) > 0
          /\ Fail("context")
          /\ UNCHANGED <<nRenders, lastRender>>
       \/ /\ ~(ctxDone /\ Len(plan.Included) > 0)
          /\ \E failing \in RereadFailures(plan) :
               LET tight == tightened(plan, fs, failing, cfg) IN
               \/ /\ Fail("render")
                  /\ RenderFails
               \/ \E r \in RenderOutcomes(tight) :
                    /\ RenderReturns(r)
                    /\ plan' = tight
                    /\ err' = err
                    /\ IF r <= cfg.maxChars
                       THEN pc' = "done" /\ text' = Rendered(r)
                       ELSE pc' = "hardcut" /\ text' = text
    /\ UNCHANGED <<cfg, enabled, fs, selected, basePlan, keep, dropIdx, ctxDone>>
    /\ UNCHANGED truncVars
    /\ UNCHANGED auxVars

\* Lines 738-749: hard cut of the rendered text.
HardCut ==
    /\ pc = "hardcut"
    /\ plan' = [plan EXCEPT !.HardCut = TRUE, !.Partial = TRUE]
    /\ text' = hardCutText(lastRender, cfg.maxChars)
    /\ pc' = "done"
    /\ UNCHANGED <<cfg, enabled, fs, selected, basePlan, keep, dropIdx, nRenders,
                   lastRender, err, ctxDone>>
    /\ UNCHANGED truncVars
    /\ UNCHANGED auxVars

Next ==
    \/ Cancel
    \/ Select
    \/ BuildPlan
    \/ EnforceStart
    \/ DropStep
    \/ Tighten
    \/ HardCut

Spec == Init /\ [][Next]_vars

(***************************************************************************)
(* SpecSel: Select alone, over configurations whose priorities include the *)
(* smallest value primary can tell from "no slice yet".                    *)
(***************************************************************************)
InitSel ==
    /\ TruncIdle
    /\ AuxIdle
    /\ pc = "select"
    /\ cfg \in [pri : [Slices -> Priorities], maxChars : {45}, maxLines : {4},
                maxBytes : {DefaultPerFileMaxBytes}, includeHidden : BOOLEAN]
    /\ enabled \in SUBSET Slices
    /\ fs \in {f \in [Paths -> UNION {FileKinds(p) : p \in Paths}] :
                 \A p \in Paths : f[p] \in FileKinds(p)}
    /\ selected = [Included |-> <<>>, Dropped |-> <<>>]
    /\ plan = IdlePlan
    /\ basePlan = IdlePlan
    /\ keep = {}
    /\ dropIdx = 0
    /\ nRenders = 0
    /\ lastRender = 0
    /\ text = NoText
    /\ err = ""
    /\ ctxDone = FALSE

SpecSel == InitSel /\ [][Select]_vars

(***************************************************************************)
(* Vocabulary of the properties.                                           *)
(***************************************************************************)
\* The plan is one a caller can hold: BuildPlan or EnforceGlobalBudget has
\* returned it without an error.
AfterBuildPlan == pc = "enforce"

AfterEnforce == pc = "done" /\ err = "" /\ nRenders > 0

PlanReturned == AfterBuildPlan \/ AfterEnforce

\* The plan exists: returned, or in the hands of the budget ladder.
PlanLive == pc \in {"enforce", "drop", "hardcut"} \/ AfterEnforce

IncludedPaths(p) == {p.Included[i].RelPath : i \in 1..Len(p.Included)}

DroppedPaths(p) == {p.Dropped[i].RelPath : i \in 1..Len(p.Dropped)}

DroppedReasons(p, path) ==
    {p.Dropped[i].Reason : i \in {j \in 1..Len(p.Dropped) : p.Dropped[j].RelPath = path}}

SeqSet(q) == {q[i] : i \in 1..Len(q)}

\* The selection universe: discovered files with an enabled member slice.
Universe ==
    {p \in Paths : \E s \in enabled : isMember(s, p, isHiddenRel(p), cfg.includeHidden)}

\* d comes before k in the drop order: priority ascending, then name ascending.
DropsBefore(d, k) ==
    cfg.pri[d] < cfg.pri[k] \/ (cfg.pri[d] = cfg.pri[k] /\ NameRank(d) < NameRank(k))

\* The number of lines of a file: one per LF, and one more for a last line
\* that no LF ends.
TrueLines(b) ==
    Cardinality({i \in 1..Len(b) : b[i] = "LF"})
    + (IF Len(b) > 0 /\ b[Len(b)] # "LF" THEN 1 ELSE 0)

EndsWith(q, suffix) ==
    /\ Len(q) >= Len(suffix)
    /\ SubSeq(q, Len(q) - Len(suffix) + 1, Len(q)) = suffix

\* UTF-8 well-formedness of a whole byte sequence: "ok", "invalid" (some
\* byte cannot continue or start a sequence) or "incomplete" (the bytes end
\* inside a sequence).
RECURSIVE Utf8Status(_)
Utf8Status(b) ==
    IF Len(b) = 0 THEN "ok"
    ELSE IF b[1] \in {"a", "LF", "CR"} THEN Utf8Status(Tail(b))
    ELSE IF b[1] = "L2"
         THEN IF Len(b) = 1 THEN "incomplete"
              ELSE IF b[2] = "CB" THEN Utf8Status(SubSeq(b, 3, Len(b)))
              ELSE "invalid"
         ELSE "invalid"

\* How reading the file fails, if it does: the reason BuildPlan must record.
ExpectedFailure(f) ==
    IF f.ioerr \in {"stat", "open"} THEN "unreadable"
    ELSE IF Utf8Status(f.bytes) = "invalid" THEN "invalid_utf8"
    ELSE IF f.ioerr = "read" THEN "unreadable"
    ELSE IF Utf8Status(f.bytes) = "incomplete" THEN "invalid_utf8"
    ELSE ""

EntriesFor(p, path) == {j \in 1..Len(p.Dropped) : p.Dropped[j].RelPath = path}

(***************************************************************************)
(* C1.  Budget satisfaction.                                               *)
(***************************************************************************)
\* C1: the text EnforceGlobalBudget returns has at most max_chars runes, for
\* every max_chars >= 1, with or without the hard cut.
C1_TextWithinBudget ==
    AfterEnforce => runeCount(text) <= cfg.maxChars

(***************************************************************************)
(* C2.  The Partial flag.                                                  *)
(***************************************************************************)
\* C2 as stated: in every returned plan, Partial is true iff Dropped is
\* non-empty or HardCut is true.
C2_PartialIffDroppedOrHardCut ==
    PlanReturned => (plan.Partial <=> (Len(plan.Dropped) > 0 \/ plan.HardCut))

\* C2 as amended: in every returned plan, Partial is true iff Dropped holds
\* an entry with reason unreadable or invalid_utf8, or the first render was
\* over budget (the render callback was called again: every plan with dropped
\* slices, budget_exceeded entries, tightened truncation or HardCut).
C2_PartialIffFidelityLost ==
    PlanReturned =>
        (plan.Partial <=>
            (\/ \E i \in 1..Len(plan.Dropped) :
                    plan.Dropped[i].Reason \in {"unreadable", "invalid_utf8"}
             \/ nRenders >= 2))

\* A returned plan whose Dropped holds a file the classifier excluded as
\* sensitive and a file with invalid UTF-8, within budget at the first render.
C2_Witness ==
    /\ AfterEnforce
    /\ nRenders = 1
    /\ plan.Partial
    /\ \E i, j \in 1..Len(plan.Dropped) :
          /\ plan.Dropped[i].Reason = "excluded_sensitive"
          /\ plan.Dropped[j].Reason = "invalid_utf8"

(***************************************************************************)
(* C3.  Included and Dropped partition the selection universe.             *)
(***************************************************************************)
\* C3: whenever a plan exists (after BuildPlan, at every step of the ladder,
\* after EnforceGlobalBudget), every file of the selection universe is in
\* exactly one of Included and Dropped, and no other file is in either.
C3_Partition ==
    PlanLive =>
        /\ IncludedPaths(plan) \cup DroppedPaths(plan) = Universe
        /\ IncludedPaths(plan) \cap DroppedPaths(plan) = {}
        /\ Cardinality(IncludedPaths(plan)) = Len(plan.Included)

\* A hard-cut plan that lost a file to a dropped slice and kept another.
C3_Witness ==
    /\ AfterEnforce
    /\ plan.HardCut
    /\ Len(plan.Included) > 0
    /\ \E i \in 1..Len(plan.Dropped) : plan.Dropped[i].Reason = "budget_exceeded"
    /\ \E i \in 1..Len(plan.Dropped) : plan.Dropped[i].Reason = "unreadable"

(***************************************************************************)
(* C4.  Drop order.                                                        *)
(***************************************************************************)
\* C4: at every step of the ladder, DroppedSlices lists enabled slices in
\* the order priority ascending then name ascending, and every dropped slice
\* comes before every slice still enabled in that order (so no slice is
\* dropped while one of strictly lower priority is enabled).
C4_DropOrder ==
    PlanLive =>
        LET ds == plan.DroppedSlices IN
        /\ SeqSet(ds) \subseteq enabled
        /\ \A i, j \in 1..Len(ds) : i < j => DropsBefore(ds[i], ds[j])
        /\ \A d \in SeqSet(ds) : \A k \in enabled \ SeqSet(ds) : DropsBefore(d, k)
        /\ pc = "drop" => keep = enabled \ SeqSet(ds)

\* Two slices dropped: one of lower priority, then one that ties with the
\* remaining slice and precedes it by name.
C4_Witness ==
    /\ AfterEnforce
    /\ Len(plan.DroppedSlices) = 2
    /\ cfg.pri[plan.DroppedSlices[1]] < cfg.pri[plan.DroppedSlices[2]]
    /\ \E k \in enabled \ SeqSet(plan.DroppedSlices) :
          cfg.pri[k] = cfg.pri[plan.DroppedSlices[2]]

(***************************************************************************)
(* C5.  The drop phase stops in time.                                      *)
(***************************************************************************)
\* C5: with n >= 1 enabled slices at most n-1 are ever in DroppedSlices, none
\* twice; the loop is at its head only while the last render was over budget;
\* and when n-1 are dropped the slice left is the last in drop order.
C5_DropPhaseStops ==
    PlanLive =>
        LET ds == plan.DroppedSlices
            n == Cardinality(enabled)
        IN  /\ n >= 1
            /\ Len(ds) <= n - 1
            /\ Cardinality(SeqSet(ds)) = Len(ds)
            /\ pc = "drop" => lastRender > cfg.maxChars
            /\ Len(ds) = n - 1 =>
                  \A k \in enabled \ SeqSet(ds) : \A d \in enabled \ {k} : DropsBefore(d, k)

\* A drop made the text fit while two of three slices were still enabled,
\* and: all but one of three slices dropped.
C5_Witness ==
    /\ AfterEnforce
    /\ Cardinality(enabled) = 3
    /\ Len(plan.DroppedSlices) = 2
    /\ plan.HardCut

(***************************************************************************)
(* C6.  Per-file limits.                                                   *)
(***************************************************************************)
\* Bytes of Content without the truncation marker.
ContentBytes(e) == Len(e.Content) - (IF e.Truncated THEN Len(Marker(0, 0)) ELSE 0)

\* C6: every FileEntry the engine produces has KeptLines <= max lines and
\* KeptBytes <= max bytes, and its content without the marker is no longer
\* than max bytes.
C6_KeptWithinLimits ==
    \A e \in {tOut, tOut2} :
        e.failed = "" =>
            /\ e.KeptLines <= tIn.maxLines
            /\ e.KeptBytes <= tIn.maxBytes
            /\ ContentBytes(e) <= tIn.maxBytes

\* A file cut by the byte limit after keeping lines that fill it exactly.
C6_Witness ==
    /\ tpc = "ran"
    /\ tOut.failed = ""
    /\ tOut.Truncated
    /\ tOut.KeptLines >= 1
    /\ tOut.KeptLines < tIn.maxLines
    /\ tOut.KeptBytes = tIn.maxBytes

(***************************************************************************)
(* C7.  OriginalLines and the truncation marker.                           *)
(***************************************************************************)
\* C7: OriginalLines is the number of lines of the file, truncated or not;
\* Truncated holds exactly when Content ends with the marker naming
\* OriginalLines and KeptLines, and otherwise Content holds file bytes only;
\* five lines under max lines 3 give the first three lines and the marker
\* with 5 and 3.
C7_OriginalLinesAndMarker ==
    (tpc \in {"ran", "reran"} /\ tOut.failed = "") =>
        /\ tOut.OriginalLines = TrueLines(tIn.bytes)
        /\ tOut.Truncated <=>
              EndsWith(tOut.Content, Marker(tOut.OriginalLines, tOut.KeptLines))
        /\ ~tOut.Truncated => SeqSet(tOut.Content) \subseteq Bytes
        /\ SeqSet(SubSeq(tOut.Content, 1, ContentBytes(tOut))) \subseteq Bytes
        /\ (tIn.bytes = FiveLines /\ tIn.maxLines = 3
            /\ tIn.maxBytes = DefaultPerFileMaxBytes) =>
              tOut.Content = <<"a", "LF", "a", "LF", "a", "LF",
                               "U+2026", " [TRUNCATED: original_lines=", "5",
                               " kept_lines=", "3", "]", "LF">>

\* The five-line file of TestPerFileTruncationByLines under max lines 3.
C7_Witness ==
    /\ tpc = "ran"
    /\ tIn.bytes = FiveLines
    /\ tIn.maxLines = 3
    /\ tIn.maxBytes = DefaultPerFileMaxBytes
    /\ tOut.Truncated
    /\ tOut.OriginalLines = 5
    /\ tOut.KeptLines = 3

(***************************************************************************)
(* C8.  Truncation idempotence.                                            *)
(***************************************************************************)
\* C8: when the engine reports Truncated = FALSE, running it again on the
\* Content it produced, with the same limits, reports Truncated = FALSE and
\* returns the same Content.
C8_Idempotent ==
    tpc = "reran" =>
        /\ tOut2.failed = ""
        /\ ~tOut2.Truncated
        /\ tOut2.Content = tOut.Content

(***************************************************************************)
(* C9.  Per-file failures in BuildPlan.                                    *)
(***************************************************************************)
\* C9: after BuildPlan, every selected file whose read fails (stat, open or
\* read error; invalid UTF-8 anywhere in the file; a sequence cut short by
\* the end of the file) has exactly one DroppedEntry, with reason unreadable
\* or invalid_utf8 respectively, and no Included entry, and Partial is true;
\* every other selected file is Included; and BuildPlan itself fails only
\* when the context was cancelled.
C9_PerFileFailuresRecovered ==
    /\ AfterBuildPlan =>
          \A i \in 1..Len(selected.Included) :
              LET path == selected.Included[i].RelPath
                  x == ExpectedFailure(fs[path])
              IN  IF x # ""
                  THEN /\ path \notin IncludedPaths(plan)
                       /\ Cardinality(EntriesFor(plan, path)) = 1
                       /\ DroppedReasons(plan, path) = {x}
                       /\ plan.Partial
                  ELSE /\ path \in IncludedPaths(plan)
                       /\ EntriesFor(plan, path) = {}
    /\ (pc = "done" /\ nRenders = 0 /\ err # "no enabled slices") => ctxDone

\* BuildPlan has met invalid UTF-8 after the line limit was exhausted, a
\* sequence cut short by the end of the file and a read error, in one run.
C9_Witness ==
    /\ AfterBuildPlan
    /\ cfg.maxLines = 1
    /\ Len(selected.Included) = 3
    /\ DroppedReasons(plan, "a.go") = {"invalid_utf8"}
    /\ DroppedReasons(plan, "docs/r.md") = {"invalid_utf8"}
    /\ DroppedReasons(plan, ".github/ci.yml") = {"unreadable"}

(***************************************************************************)
(* C10.  The primary slice.                                                *)
(***************************************************************************)
\* C10: for every selected file, PrimarySlice is a member slice of highest
\* priority among the member slices, the smallest by name among those of
\* that priority, and PrimaryPriority is its priority.
C10_PrimaryIsBestMember ==
    pc = "build" =>
        \A f \in SeqSet(selected.Included) \cup SeqSet(selected.Dropped) :
            /\ f.PrimarySlice \in SeqSet(f.Slices)
            /\ \A m \in SeqSet(f.Slices) :
                  \/ cfg.pri[m] < cfg.pri[f.PrimarySlice]
                  \/ /\ cfg.pri[m] = cfg.pri[f.PrimarySlice]
                     /\ NameRank(f.PrimarySlice) <= NameRank(m)
            /\ f.PrimaryPriority = cfg.pri[f.PrimarySlice]

(***************************************************************************)
(* C11.  Slice membership.                                                 *)
(***************************************************************************)
\* Some include glob of slice s matches the path.
IncludeHits(s, rel) ==
    {i \in 1..Len(SliceInclude(s)) : Match(SliceInclude(s)[i], rel)}

\* Some segment of the glob starts with "." and is neither "." nor "..".
HasDotSegment(pat) ==
    \E i \in 1..Len(Segs(pat)) :
        HasDotPrefix(Segs(pat)[i]) /\ Segs(pat)[i] \notin {".", ".."}

\* The membership rule of C11, stated on the globs of the slice.
MemberByRule(s, rel) ==
    /\ IncludeHits(s, rel) # {}
    /\ \A i \in 1..Len(SliceExclude(s)) : ~Match(SliceExclude(s)[i], rel)
    /\ isHiddenRel(rel) =>
          \/ cfg.includeHidden
          \/ \E i \in IncludeHits(s, rel) : HasDotSegment(SliceInclude(s)[i])

SelectedFiles == SeqSet(selected.Included) \cup SeqSet(selected.Dropped)

\* C11: after Select, the Slices of every selected file are exactly the
\* enabled slices with a matching include glob, no matching exclude glob and,
\* for a hidden path, include-hidden set or a matching include glob with a
\* dot segment; a path with no such slice is not selected; with
\* include-hidden off the hidden file is not a member of the slice that
\* matches it only by **/* and is a member of the slice with .github/**.
C11_MembershipRule ==
    pc = "build" =>
        /\ \A p \in Paths :
              LET M == {s \in enabled : MemberByRule(s, p)} IN
              IF M = {} THEN \A f \in SelectedFiles : f.RelPath # p
              ELSE \E f \in SelectedFiles : f.RelPath = p /\ SeqSet(f.Slices) = M
        /\ ~cfg.includeHidden =>
              \A f \in SelectedFiles :
                  f.RelPath = ".github/ci.yml" =>
                      /\ "api" \notin SeqSet(f.Slices)
                      /\ "docs" \in enabled => "docs" \in SeqSet(f.Slices)

\* Include-hidden off, the slices api (**/*) and docs (.github/**) enabled:
\* the hidden file is selected as a member of docs alone.
C11_Witness ==
    /\ pc = "build"
    /\ ~cfg.includeHidden
    /\ enabled = {"api", "docs"}
    /\ \E f \in SelectedFiles : f.RelPath = ".github/ci.yml" /\ f.Slices = <<"docs">>

(***************************************************************************)
(* C12.  What Select does with each discovered file.                       *)
(***************************************************************************)
SelIncludedPaths == {selected.Included[i].RelPath : i \in 1..Len(selected.Included)}

SelDroppedPaths == {selected.Dropped[i].RelPath : i \in 1..Len(selected.Dropped)}

\* C12: after Select, a discovered file with no member slice is in neither
\* Included nor Dropped of the selection, and never in Plan.Dropped; a file
\* with a member slice that the classifier excluded is in Dropped only, once,
\* with the classifier's reason, which BuildPlan copies to Plan.Dropped; every
\* other file with a member slice is in Included only, once.
C12_SelectSplit ==
    /\ pc \in {"build", "enforce"} =>
          /\ \A p \in Paths :
                IF p \notin Universe
                THEN p \notin SelIncludedPaths \cup SelDroppedPaths
                ELSE IF fs[p].reason # ""
                THEN /\ p \notin SelIncludedPaths
                     /\ \E i \in 1..Len(selected.Dropped) :
                           /\ selected.Dropped[i].RelPath = p
                           /\ selected.Dropped[i].ExclusionReason = fs[p].reason
                           /\ selected.Dropped[i].Excluded
                ELSE /\ p \notin SelDroppedPaths
                     /\ p \in SelIncludedPaths
          /\ Len(selected.Included) = Cardinality(SelIncludedPaths)
          /\ Len(selected.Dropped) = Cardinality(SelDroppedPaths)
    /\ PlanLive =>
          \A p \in Paths :
              /\ p \notin Universe => p \notin DroppedPaths(plan)
              /\ (p \in Universe /\ fs[p].reason # "") =>
                    /\ fs[p].reason \in DroppedReasons(plan, p)
                    /\ p \notin IncludedPaths(plan)

\* The sensitive file is a member of an enabled slice and is dropped with
\* the classifier's reason, while the hidden file, excluded as unreadable, is
\* a member of no enabled slice and is not in the plan at all.
C12_Witness ==
    /\ AfterBuildPlan
    /\ enabled = {"api"}
    /\ ~cfg.includeHidden
    /\ fs[".github/ci.yml"].reason = "unreadable"
    /\ fs["docs/r.md"].reason = "excluded_sensitive"
    /\ DroppedPaths(plan) = {"docs/r.md"}
    /\ DroppedReasons(plan, "docs/r.md") = {"excluded_sensitive"}
    /\ IncludedPaths(plan) \cup DroppedPaths(plan) = {"a.go", "docs/r.md"}

(***************************************************************************)
(* SpecDisc: discovery.Engine.Discover over a small tree.                  *)
(***************************************************************************)
\* The bytes a file under the root may hold: the byte classes and NUL.
SniffBytes == Bytes \cup {"NUL"}

\* util.SniffBinary on the bytes sniffBinary read: a NUL byte, or more than
\* 30% of bytes that are neither printable ASCII nor LF, CR, TAB.
SniffBinary(sample) ==
    IF Len(sample) = 0 THEN FALSE
    ELSE IF \E i \in 1..Len(sample) : sample[i] = "NUL" THEN TRUE
    ELSE LET non == Cardinality({i \in 1..Len(sample) :
                                     sample[i] \notin {"a", "LF", "CR"}})
         IN  10 * non > 3 * Len(sample)

\* sniffBinary: open, read, sniff; io is the call that fails, if any.
sniffBinary(f) ==
    IF f.io \in {"open", "read"} THEN [isBin |-> FALSE, err |-> f.io]
    ELSE [isBin |-> SniffBinary(f.bytes), err |-> ""]

\* strings.ToLower(filepath.Ext(rel))
Ext(rel) ==
    CASE rel = "a.go"           -> ".go"
      [] rel = "docs/r.md"      -> ".md"
      [] rel = ".github/ci.yml" -> ".yml"

\* NewEngine: an extension is given its leading dot when it has none.
extMap(binaryExts) ==
    {IF binaryExts[i] \in {"go", "md"} THEN "." \o binaryExts[i] ELSE binaryExts[i] :
        i \in {j \in 1..Len(binaryExts) : binaryExts[j] # ""}}

\* Engine.matchesAny
engineMatchesAny(rel, patterns) ==
    \E i \in 1..Len(patterns) : patterns[i] # "" /\ Match(patterns[i], rel)

\* The directory a path lies in ("" for a file at the root).
DirOf(rel) == IF Len(Segs(rel)) > 1 THEN Segs(rel)[1] ELSE ""

\* The walk skips the subtree of a directory that is a symbolic link, that
\* matches ignore.always or that the gitignore rules match.
dirSkipped(t, dir) ==
    \/ dir \in t.symlinks
    \/ engineMatchesAny(dir \o "/", t.ignoreAlways)
    \/ (t.useGitignore /\ dir \in t.gitignored)

PathInfo(rel, reason, detail) ==
    [RelPath |-> rel, IsHidden |-> isHiddenRel(rel), Excluded |-> reason # "",
     ExclusionReason |-> reason, ExclusionDetail |-> detail]

\* The walk callback on a file that is not a symbolic link.
classify(t, rel) ==
    LET f == t.files[rel] IN
    IF f.io = "stat" THEN PathInfo(rel, "unreadable", "stat")
    ELSE IF engineMatchesAny(rel, t.ignoreAlways)
    THEN PathInfo(rel, "excluded_ignore_always", "ignore.always")
    ELSE IF engineMatchesAny(rel, t.sensitiveGlobs)
    THEN PathInfo(rel, "excluded_sensitive", "sensitive.exclude_globs")
    ELSE IF t.useGitignore /\ rel \in t.gitignored
    THEN PathInfo(rel, "excluded_gitignore", ".gitignore")
    ELSE IF Ext(rel) \in extMap(t.binaryExts)
    THEN PathInfo(rel, "excluded_binary", "binary extension")
    ELSE LET sn == sniffBinary(f) IN
         IF sn.err # "" THEN PathInfo(rel, "unreadable", sn.err)
         ELSE IF sn.isBin THEN PathInfo(rel, "excluded_binary", "binary sniff")
         ELSE PathInfo(rel, "", "")

\* sortPathInfos
sortPathInfos(in) == SortSeq(in, LAMBDA x, y : PathRank(x.RelPath) < PathRank(y.RelPath))

\* Discover: the walk in lexical order, then the sort by RelPath.
RECURSIVE walk(_, _, _)
walk(t, rest, out) ==
    IF Len(rest) = 0 THEN out
    ELSE LET rel == Head(rest) IN
         IF (DirOf(rel) # "" /\ dirSkipped(t, DirOf(rel))) \/ rel \in t.symlinks
         THEN walk(t, Tail(rest), out)
         ELSE walk(t, Tail(rest), Append(out, classify(t, rel)))

Discover(t) == sortPathInfos(walk(t, PathOrder, <<>>))

\* The rule sets and trees SpecDisc enumerates.
IgnoreAlwaysChoices == {<<>>, <<"docs/**">>, <<"a.go">>}

SensitiveChoices == {<<>>, <<"a.go">>, <<"**/*">>}

GitignoredChoices == {{}, {"a.go", "docs"}}

BinaryExtChoices == {<<>>, <<"go">>, <<".md">>}

SymlinkChoices == {{}, {"a.go"}, {".github"}}

DiscFileKinds ==
    {[io |-> "none", bytes |-> b] : b \in {<<"a", "LF">>, <<"NUL", "a">>, <<"a", "L2">>}}
    \cup {[io |-> e, bytes |-> <<"a", "LF">>] : e \in {"stat", "open", "read"}}

InitDisc ==
    /\ TruncIdle
    /\ PipeIdle
    /\ EnIdle
    /\ CtrIdle
    /\ RunIdle
    /\ ToolIdle
    /\ dpc = "start"
    /\ tree \in [ignoreAlways : IgnoreAlwaysChoices, sensitiveGlobs : SensitiveChoices,
                 useGitignore : BOOLEAN, gitignored : GitignoredChoices,
                 binaryExts : BinaryExtChoices, symlinks : SymlinkChoices,
                 files : [Paths -> DiscFileKinds]]
    /\ discovered = <<>>

\* One call of Engine.Discover.
DiscoverRun ==
    /\ dpc = "start"
    /\ discovered' = Discover(tree)
    /\ dpc' = "done"
    /\ UNCHANGED tree
    /\ UNCHANGED <<truncVars, pipeVars, enVars, ctrVars, runVars, toolVars>>

SpecDisc == InitDisc /\ [][DiscoverRun]_vars

(***************************************************************************)
(* C13.  Classification order.                                             *)
(***************************************************************************)
\* The classification the order of C13 gives a file: ignore.always,
\* sensitive globs, gitignore (if enabled), binary extension, binary content,
\* unreadable, otherwise an included candidate.
FirstApplicable(t, rel) ==
    IF \E i \in 1..Len(t.ignoreAlways) : Match(t.ignoreAlways[i], rel)
    THEN "excluded_ignore_always"
    ELSE IF \E i \in 1..Len(t.sensitiveGlobs) : Match(t.sensitiveGlobs[i], rel)
    THEN "excluded_sensitive"
    ELSE IF t.useGitignore /\ rel \in t.gitignored THEN "excluded_gitignore"
    ELSE IF \E i \in 1..Len(t.binaryExts) : t.binaryExts[i] \in {"go", ".go"} /\ rel = "a.go"
    THEN "excluded_binary"
    ELSE IF \E i \in 1..Len(t.binaryExts) : t.binaryExts[i] \in {"md", ".md"} /\ rel = "docs/r.md"
    THEN "excluded_binary"
    ELSE IF t.files[rel].io = "none" /\ SniffBinary(t.files[rel].bytes)
    THEN "excluded_binary"
    ELSE IF t.files[rel].io # "none" THEN "unreadable"
    ELSE ""

\* C13: every file Discover reports has exactly one record, and its reason
\* is the first applicable one in the order ignore.always, sensitive,
\* gitignore, binary extension, binary content, unreadable, included.
C13_FirstRuleWins ==
    dpc = "done" =>
        \A i \in 1..Len(discovered) :
            /\ \A j \in 1..Len(discovered) :
                  discovered[j].RelPath = discovered[i].RelPath => j = i
            /\ discovered[i].ExclusionReason = FirstApplicable(tree, discovered[i].RelPath)
            /\ discovered[i].Excluded <=> discovered[i].ExclusionReason # ""

\* C13 for the files whose stat succeeds.
C13_FirstRuleWinsWhenStatOk ==
    dpc = "done" =>
        \A i \in 1..Len(discovered) :
            tree.files[discovered[i].RelPath].io # "stat" =>
                discovered[i].ExclusionReason = FirstApplicable(tree, discovered[i].RelPath)

(***************************************************************************)
(* C14.  Sensitive and binary files never reach the bundle.                *)
(***************************************************************************)
\* The files the classifier excluded as sensitive or as binary.
SensitiveOrBinary ==
    {p \in DOMAIN fs : fs[p].reason \in {"excluded_sensitive", "excluded_binary"}}

\* C14: in every state of a run (after Select, after BuildPlan, at every
\* step of the ladder, after the hard cut) no file excluded as sensitive or
\* as binary is in the Included list of the selection, of the plan, or of
\* the plan the ladder started from, whatever the enabled slices and
\* include-hidden.
C14_SensitiveNeverIncluded ==
    \A p \in SensitiveOrBinary :
        /\ p \notin SelIncludedPaths
        /\ p \notin IncludedPaths(plan)
        /\ p \notin IncludedPaths(basePlan)

\* A hard-cut bundle of a tree whose sensitive file and binary file are both
\* members of enabled slices.
C14_Witness ==
    /\ AfterEnforce
    /\ plan.HardCut
    /\ fs["docs/r.md"].reason = "excluded_sensitive"
    /\ fs["a.go"].reason = "excluded_binary"
    /\ {"docs/r.md", "a.go"} \subseteq Universe
    /\ Len(plan.Included) > 0

(***************************************************************************)
(* SpecEnabled: selector.EnabledSlices as a function of the profile and    *)
(* the run modifiers.                                                      *)
(***************************************************************************)
\* A slice name that cfg.Slices does not define.
UnknownSlice == "ghost"

\* Modifier{Name, Enable}
Modifier(name, enable) == [Name |-> name, Enable |-> enable]

\* enabled[name] = on, on the map held as a function.
mapSet(m, name, on) ==
    [x \in DOMAIN m \cup {name} |-> IF x = name THEN on ELSE m[x]]

\* The loop over p.Enable: [m, err].
RECURSIVE enableLoop(_, _)
enableLoop(m, list) ==
    IF Len(list) = 0 THEN [m |-> m, err |-> ""]
    ELSE IF Head(list) \notin Slices THEN [m |-> m, err |-> "profile enables unknown slice"]
    ELSE enableLoop(mapSet(m, Head(list), TRUE), Tail(list))

\* The loop over the modifiers with every modifier taken as an enable.
RECURSIVE modLoopEnableOnly(_, _)
modLoopEnableOnly(m, mods) ==
    IF Len(mods) = 0 THEN [m |-> m, err |-> ""]
    ELSE IF Head(mods).Name \notin Slices THEN [m |-> m, err |-> "unknown slice"]
    ELSE modLoopEnableOnly(mapSet(m, Head(mods).Name, TRUE), Tail(mods))

\* The loop over the modifiers that passes over a modifier naming an
\* undefined slice.
RECURSIVE modLoopSkipsUnknown(_, _)
modLoopSkipsUnknown(m, mods) ==
    IF Len(mods) = 0 THEN [m |-> m, err |-> ""]
    ELSE IF Head(mods).Name \notin Slices THEN modLoopSkipsUnknown(m, Tail(mods))
    ELSE modLoopSkipsUnknown(mapSet(m, Head(mods).Name, Head(mods).Enable), Tail(mods))

\* The loop over the modifiers: [m, err].
RECURSIVE modLoop(_, _)
modLoop(m, mods) ==
    IF Len(mods) = 0 THEN [m |-> m, err |-> ""]
    ELSE IF Head(mods).Name \notin Slices THEN [m |-> m, err |-> "unknown slice"]
    ELSE modLoop(mapSet(m, Head(mods).Name, Head(mods).Enable), Tail(mods))

\* EnabledSlices: profiles is cfg.Profiles as a function from profile names
\* to enable lists.
EnabledSlices(profiles, profile, mods) ==
    IF profile \notin DOMAIN profiles
    THEN [out |-> <<>>, err |-> "unknown profile", profiles |-> profiles]
    ELSE LET e == enableLoop(<<>>, profiles[profile]) IN
         IF e.err # "" THEN [out |-> <<>>, err |-> e.err, profiles |-> profiles]
         ELSE LET r == modLoop(e.m, mods) IN
              IF r.err # "" THEN [out |-> <<>>, err |-> r.err, profiles |-> profiles]
              ELSE [out |-> SortedNames({x \in DOMAIN r.m : r.m[x]}), err |-> "",
                    profiles |-> profiles]

\* The enable lists and modifiers SpecEnabled enumerates.
SliceNames == Slices \cup {UnknownSlice}

EnableLists == UNION {[1..k -> SliceNames] : k \in 1..2}

Modifiers == {Modifier(n, b) : n \in SliceNames, b \in BOOLEAN}

InitEnabled ==
    /\ TruncIdle
    /\ PipeIdle
    /\ DiscIdle
    /\ CtrIdle
    /\ RunIdle
    /\ ToolIdle
    /\ epc = "start"
    /\ \E l \in EnableLists, p \in {"p", "nope"}, ms \in SeqsUpTo(Modifiers, MaxMods) :
          eIn = [profiles |-> [x \in {"p"} |-> l], profile |-> p, mods |-> ms]
    /\ eOut = <<>>

\* One call of EnabledSlices.
EnabledSlicesRun ==
    /\ epc = "start"
    /\ eOut' = EnabledSlices(eIn.profiles, eIn.profile, eIn.mods)
    /\ epc' = "done"
    /\ UNCHANGED eIn
    /\ UNCHANGED <<truncVars, pipeVars, discVars, ctrVars, runVars, toolVars>>

SpecEnabled == InitEnabled /\ [][EnabledSlicesRun]_vars

(***************************************************************************)
(* C19.  EnabledSlices.                                                    *)
(***************************************************************************)
\* The modifiers of the list that name slice s, by position.
ModsFor(ms, s) == {i \in 1..Len(ms) : ms[i].Name = s}

\* Whether slice s is on after the profile's list and the modifiers in
\* order: the last modifier for s decides, the profile's list otherwise.
OnAfter(list, ms, s) ==
    IF ModsFor(ms, s) # {}
    THEN ms[CHOOSE i \in ModsFor(ms, s) : \A j \in ModsFor(ms, s) : j <= i].Enable
    ELSE s \in SeqSet(list)

\* C19: EnabledSlices fails exactly when the profile is unknown or the
\* profile's list or a modifier names an undefined slice, and then returns no
\* list; otherwise it returns, in ascending name order and without
\* duplicates, exactly the slices that are on after the profile's list and
\* the modifiers applied in order (the last modifier for a name wins); the
\* configuration's profiles are as before the call.
C19_EnabledSlices ==
    epc = "done" =>
        LET bad == \/ eIn.profile \notin DOMAIN eIn.profiles
                   \/ UnknownSlice \in SeqSet(eIn.profiles["p"])
                   \/ \E i \in 1..Len(eIn.mods) : eIn.mods[i].Name = UnknownSlice
        IN  /\ eOut.profiles = eIn.profiles
            /\ IF bad THEN eOut.err # "" /\ eOut.out = <<>>
               ELSE /\ eOut.err = ""
                    /\ SeqSet(eOut.out) = {s \in Slices : OnAfter(eIn.profiles["p"], eIn.mods, s)}
                    /\ \A i, j \in 1..Len(eOut.out) :
                          i < j => NameRank(eOut.out[i]) < NameRank(eOut.out[j])

\* The profile enables api and docs (api listed twice over the modifiers),
\* and the modifiers -docs, +docs, -api leave docs alone: the last modifier
\* for each name has won.
C19_Witness ==
    /\ epc = "done"
    /\ eIn.profiles["p"] = <<"api", "docs">>
    /\ eIn.mods = <<Modifier("docs", FALSE), Modifier("docs", TRUE), Modifier("api", FALSE)>>
    /\ eOut.err = ""
    /\ eOut.out = <<"docs">>

(***************************************************************************)
(* SpecCounter: util.NextCounter called by runs that share one output      *)
(* directory; each call is a read of the file, a write of the run's own    *)
(* temporary file, and a rename onto the file.                             *)
(***************************************************************************)
\* The runs (processes) that use the directory.
Runs == {1, 2}

InitCounter ==
    /\ TruncIdle
    /\ PipeIdle
    /\ DiscIdle
    /\ EnIdle
    /\ RunIdle
    /\ ToolIdle
    /\ cproc = [r \in Runs |-> [pc |-> "start", cur |-> 0, tmp |-> 0, calls |-> 0]]
    /\ counterFile = 0
    /\ obtained = <<>>

\* os.ReadFile(path): cur is the number in the file, 0 when there is none.
CounterRead(r) ==
    /\ cproc[r].pc = "start"
    /\ cproc[r].calls < MaxCalls
    /\ cproc' = [cproc EXCEPT ![r].pc = "write", ![r].cur = counterFile]
    /\ UNCHANGED <<counterFile, obtained>>
    /\ UNCHANGED <<truncVars, pipeVars, discVars, enVars, runVars, toolVars>>

\* AtomicWriteFile, first half: next = cur + 1 is written to the run's
\* temporary file (its name carries the process id).
CounterWriteTemp(r) ==
    /\ cproc[r].pc = "write"
    /\ cproc' = [cproc EXCEPT ![r].pc = "rename", ![r].tmp = cproc[r].cur + 1]
    /\ UNCHANGED <<counterFile, obtained>>
    /\ UNCHANGED <<truncVars, pipeVars, discVars, enVars, runVars, toolVars>>

\* AtomicWriteFile, second half: the rename; NextCounter returns next.
CounterRename(r) ==
    /\ cproc[r].pc = "rename"
    /\ counterFile' = cproc[r].tmp
    /\ obtained' = Append(obtained, [run |-> r, value |-> cproc[r].tmp])
    /\ cproc' = [cproc EXCEPT ![r].pc = "start", ![r].tmp = 0, ![r].calls = @ + 1]
    /\ UNCHANGED <<truncVars, pipeVars, discVars, enVars, runVars, toolVars>>

NextCounterStep == \E r \in Runs : CounterRead(r) \/ CounterWriteTemp(r) \/ CounterRename(r)

SpecCounter == InitCounter /\ [][NextCounterStep]_vars

(***************************************************************************)
(* C20.  The counter.                                                      *)
(***************************************************************************)
\* C20: no two calls of NextCounter on the same directory obtain the same
\* value, also when runs overlap, and each value obtained is greater than
\* every value obtained before it.
C20_CounterValuesDistinct ==
    \A i, j \in 1..Len(obtained) :
        i < j => obtained[i].value < obtained[j].value

(***************************************************************************)
(* SpecRun: app.Run executed twice over the same options, configuration    *)
(* and root: resolve the enabled slices, discover, Select, BuildPlan,      *)
(* EnforceGlobalBudget with RenderMarkdown as the callback, write.         *)
(***************************************************************************)
ExitOK == 0

ExitUsage == 2

ExitIO == 3

ExitPartial == 4

\* config.Validate on the profiles: every profile enables at least one
\* slice and only slices the configuration defines.
Validate(profiles) ==
    \A n \in DOMAIN profiles :
        /\ Len(profiles[n]) > 0
        /\ \A i \in 1..Len(profiles[n]) : profiles[n][i] \in Slices

\* The part of Run before discovery: config.Load (Validate),
\* ApplyProfileOverrides, EnabledSlices.  [out, err]
resolveEnabled(o) ==
    IF ~Validate(o.profiles) THEN [out |-> <<>>, err |-> "config"]
    ELSE IF o.profile \notin DOMAIN o.profiles THEN [out |-> <<>>, err |-> "unknown profile"]
    ELSE LET r == EnabledSlices(o.profiles, o.profile, o.mods)
         IN  [out |-> r.out, err |-> r.err]

\* Whether the bundle goes to stdout (errors.go:219).
toStdout(o) == o.output.Output = "-" \/ (o.output.Output = "" /\ o.output.StdoutDefault)

\* The OutputPath of a run that wrote its bundle.
outputPath(o) ==
    IF toStdout(o) THEN "-"
    ELSE IF o.output.Output # "" THEN o.output.Output
    ELSE "default.md"

\* Exit code of a run that wrote its bundle, always 0.
exitCodeAlwaysOK(partial) == ExitOK

\* Exit code of a run that wrote its bundle.
exitCode(partial) == IF partial THEN ExitPartial ELSE ExitOK

\* The bundle text: the first body runes of RenderMarkdown of the plan, with
\* the timestamp of the header when the text reaches it, and the marker.
Bundle(t, p, clock) ==
    [body |-> t.body, marker |-> t.marker,
     stamp |-> IF t.body >= StampEnd THEN clock ELSE 0,
     Included |-> p.Included, Dropped |-> p.Dropped, DroppedSlices |-> p.DroppedSlices]

\* The inputs SpecRun enumerates.
RunProfiles == {<<"api", "docs">>, <<"api", "docs", "tests">>, <<"docs", UnknownSlice>>}

RunMods ==
    {<<>>, <<Modifier("tests", TRUE)>>, <<Modifier("docs", FALSE)>>,
     <<Modifier(UnknownSlice, TRUE)>>, <<Modifier(UnknownSlice, FALSE)>>,
     <<Modifier("api", FALSE), Modifier("docs", FALSE)>>}

RunOutputs ==
    {[Output |-> "-", StdoutDefault |-> FALSE], [Output |-> "out.md", StdoutDefault |-> FALSE],
     [Output |-> "", StdoutDefault |-> FALSE], [Output |-> "", StdoutDefault |-> TRUE]}

RunRoots ==
    {[p \in Paths |->
        CASE p = "a.go" -> a
          [] p = "docs/r.md" -> d
          [] p = ".github/ci.yml" -> File("", <<"a", "CR", "LF", "a">>, "none")] :
        a \in {File("", FiveLines, "none"), File("", <<"a", "LF", "a", "LF", "XX">>, "none")},
        d \in {File("", <<"a", "LF">>, "none"),
               File("excluded_sensitive", <<"a", "LF">>, "none")}}

RunMaxChars == {20, 25, 40, 45, 60}

\* Slice priorities of the configurations SpecRun enumerates: api above the
\* other two, or docs above the other two.
RunPriorities ==
    {[s \in Slices |-> IF s = top THEN 2 ELSE 1] : top \in {"api", "docs"}}

RunClocks == {<<1, 1>>, <<1, 2>>}

RunPipeStart ==
    /\ pc = "idle"
    /\ enabled = {}
    /\ fs = <<>>
    /\ selected = [Included |-> <<>>, Dropped |-> <<>>]
    /\ plan = IdlePlan
    /\ basePlan = IdlePlan
    /\ keep = {}
    /\ dropIdx = 0
    /\ nRenders = 0
    /\ lastRender = 0
    /\ text = NoText
    /\ err = ""
    /\ ctxDone = FALSE

InitRun ==
    /\ TruncIdle
    /\ DiscIdle
    /\ EnIdle
    /\ CtrIdle
    /\ ToolIdle
    /\ RunPipeStart
    /\ cfg \in [pri : RunPriorities,
                maxChars : RunMaxChars, maxLines : PipeLineLimits,
                maxBytes : {DefaultPerFileMaxBytes}, includeHidden : {TRUE}]
    /\ rpc = "resolve"
    /\ opts \in [profiles : {[x \in {"p"} |-> l] : l \in RunProfiles},
                 profile : {"p", "nope"}, mods : RunMods, output : RunOutputs,
                 root : RunRoots, clocks : RunClocks]
    /\ runNo = 1
    /\ effects = NoEffects
    /\ ret = NoReturn
    /\ first = <<>>

\* Run returns code with an empty RunResult.
RunFails(code) ==
    /\ rpc' = "exit"
    /\ ret' = [NoReturn EXCEPT !.code = code]

\* errors.go:100-125: load and validate the configuration, resolve the
\* profile and the modifiers.
RunResolve ==
    /\ rpc = "resolve"
    /\ LET r == resolveEnabled(opts) IN
       IF r.err # ""
       THEN /\ RunFails(ExitUsage)
            /\ UNCHANGED enabled
       ELSE /\ enabled' = SeqSet(r.out)
            /\ rpc' = "discover"
            /\ UNCHANGED ret
    /\ UNCHANGED <<pc, cfg, fs, selected, plan, basePlan, keep, dropIdx, nRenders,
                   lastRender, text, err, ctxDone>>
    /\ UNCHANGED <<opts, runNo, effects, first>>
    /\ UNCHANGED <<truncVars, discVars, enVars, ctrVars, toolVars>>

\* errors.go:148-156: NewEngine and Discover walk the root; a walk that
\* fails ends the run.
RunDiscover ==
    /\ rpc = "discover"
    /\ effects' = [effects EXCEPT !.walked = TRUE]
    /\ \/ /\ RunFails(ExitIO)
          /\ UNCHANGED <<pc, fs>>
       \/ /\ fs' = opts.root
          /\ pc' = "select"
          /\ rpc' = "pipeline"
          /\ UNCHANGED ret
    /\ UNCHANGED <<cfg, enabled, selected, plan, basePlan, keep, dropIdx, nRenders,
                   lastRender, text, err, ctxDone>>
    /\ UNCHANGED <<opts, runNo, first>>
    /\ UNCHANGED <<truncVars, discVars, enVars, ctrVars, toolVars>>

\* errors.go:158-254: what Run does with the outcome of Select, BuildPlan
\* and EnforceGlobalBudget: return the error, or write the bundle and return.
RunFinish ==
    /\ rpc = "pipeline"
    /\ pc = "done"
    /\ IF err # ""
       THEN /\ RunFails(IF err = "no enabled slices" THEN ExitUsage ELSE ExitIO)
            /\ UNCHANGED effects
       ELSE \/ /\ RunFails(ExitIO)
               /\ UNCHANGED effects
            \/ /\ effects' = [effects EXCEPT !.written =
                                 Append(@, [dest |-> outputPath(opts),
                                            bundle |-> Bundle(text, plan, opts.clocks[runNo])])]
               /\ ret' = [code |-> exitCode(plan.Partial), OutputPath |-> outputPath(opts),
                          Partial |-> plan.Partial, HardCut |-> plan.HardCut]
               /\ rpc' = "exit"
    /\ UNCHANGED pipeVars
    /\ UNCHANGED <<opts, runNo, first>>
    /\ UNCHANGED <<truncVars, discVars, enVars, ctrVars, toolVars>>

\* A second, independent execution of Run with the same options,
\* configuration and root, once the first has written its bundle.
RunAgain ==
    /\ rpc = "exit"
    /\ runNo = 1
    /\ ret.code \in {ExitOK, ExitPartial}
    /\ first' = [plan |-> plan, written |-> effects.written, ret |-> ret]
    /\ runNo' = 2
    /\ rpc' = "resolve"
    /\ effects' = NoEffects
    /\ ret' = NoReturn
    /\ pc' = "idle"
    /\ enabled' = {}
    /\ fs' = <<>>
    /\ selected' = [Included |-> <<>>, Dropped |-> <<>>]
    /\ plan' = IdlePlan
    /\ basePlan' = IdlePlan
    /\ keep' = {}
    /\ dropIdx' = 0
    /\ nRenders' = 0
    /\ lastRender' = 0
    /\ text' = NoText
    /\ err' = ""
    /\ ctxDone' = FALSE
    /\ UNCHANGED <<cfg, opts>>
    /\ UNCHANGED <<truncVars, discVars, enVars, ctrVars, toolVars>>

NextRun ==
    \/ RunResolve
    \/ RunDiscover
    \/ Cancel
    \/ Select
    \/ BuildPlan
    \/ EnforceStart
    \/ DropStep
    \/ Tighten
    \/ HardCut
    \/ RunFinish
    \/ RunAgain

SpecRun == InitRun /\ [][NextRun]_vars

RunTypeOK == rpc \in {"off", "resolve", "discover", "pipeline", "exit"}

(***************************************************************************)
(* C15.  Determinism of Run.                                               *)
(***************************************************************************)
\* Both executions of Run have written their bundle and returned.
BothRunsDone ==
    /\ rpc = "exit"
    /\ runNo = 2
    /\ ret.code \in {ExitOK, ExitPartial}

\* A bundle without the timestamp of its header.
Unstamped(w) == [dest |-> w.dest, bundle |-> [w.bundle EXCEPT !.stamp = 0]]

ConfigError ==
    \/ opts.profile \notin DOMAIN opts.profiles
    \/ \E n \in DOMAIN opts.profiles : UnknownSlice \in SeqSet(opts.profiles[n])
    \/ \E i \in 1..Len(opts.mods) : opts.mods[i].Name = UnknownSlice

\* C16: in a run whose modifiers or profile name an undefined slice, or
\* whose profile is unknown, the root is never walked, Select and BuildPlan
\* never run (no file is read), nothing is written, and Run returns exit
\* code 2 with an empty result.
C16_ConfigErrorBeforeIO ==
    (rpc # "off" /\ ConfigError) =>
        /\ rpc \in {"resolve", "exit"}
        /\ pc = "idle"
        /\ fs = <<>>
        /\ ~effects.walked
        /\ effects.written = <<>>
        /\ rpc = "exit" => ret = [NoReturn EXCEPT !.code = ExitUsage]

\* Run has returned for a valid profile and a modifier that disables an
\* undefined slice.
C16_Witness ==
    /\ rpc = "exit"
    /\ ret.code = ExitUsage
    /\ opts.profile = "p"
    /\ opts.profiles["p"] = <<"api", "docs">>
    /\ opts.mods = <<Modifier(UnknownSlice, FALSE)>>

(***************************************************************************)
(* C17.  A failing render callback aborts the enforcement and the run.     *)
(***************************************************************************)
\* C17: once the render callback has returned an error, at whichever step
\* of the ladder, EnforceGlobalBudget has returned the empty plan and the
\* empty text with that error; no further render, drop, tighten or hard cut
\* follows; Run writes nothing to a file or to stdout and returns the I/O
\* exit code.
C17_RenderErrorAborts ==
    /\ [](err = "render" =>
            /\ pc = "done"
            /\ plan = IdlePlan
            /\ text = NoText
            /\ effects.written = <<>>
            /\ rpc = "exit" => ret = [NoReturn EXCEPT !.code = ExitIO])
    /\ [][err = "render" =>
            /\ err' = "render"
            /\ UNCHANGED <<pc, plan, text, keep, dropIdx, nRenders, lastRender>>
            /\ effects'.written = <<>>]_vars

\* Run has returned after the render of the tightened plan, the third
\* call of the callback, failed.
C17_Witness ==
    /\ rpc = "exit"
    /\ err = "render"
    /\ nRenders = 3
    /\ Len(basePlan.Included) > 0
    /\ ret.code = ExitIO

(***************************************************************************)
(* C18.  A partial run still writes its bundle and exits with code 4.      *)
(***************************************************************************)
\* A file was dropped because it could not be read or decoded, a slice was
\* dropped for the budget, or the text was hard-cut.
PartialCause(p) ==
    \/ \E i \in 1..Len(p.Dropped) : p.Dropped[i].Reason \in {"unreadable", "invalid_utf8"}
    \/ Len(p.DroppedSlices) > 0
    \/ p.HardCut

\* Run has returned after EnforceGlobalBudget succeeded and the write of the
\* bundle did not fail.
RunWroteBundle ==
    /\ rpc = "exit"
    /\ pc = "done"
    /\ err = ""
    /\ ret.code # ExitIO

\* C18: when Run returns after the write of the bundle, the bundle of the
\* final plan is at its destination (stdout, the explicit path, or the
\* default file), the result carries that path and the Partial and HardCut
\* flags of the plan, every cause of partiality sets the Partial flag, and
\* the exit code is 4 when the plan is partial and 0 when it is not.
C18_PartialStillWritten ==
    RunWroteBundle =>
        /\ effects.written =
              <<[dest |-> outputPath(opts),
                 bundle |-> Bundle(text, plan, opts.clocks[runNo])]>>
        /\ ret.OutputPath = outputPath(opts)
        /\ ret.Partial = plan.Partial
        /\ ret.HardCut = plan.HardCut
        /\ PartialCause(plan) => plan.Partial
        /\ plan.Partial => ret.code = ExitPartial
        /\ ~plan.Partial => ret.code = ExitOK

\* Run has written a hard-cut bundle to the default output file and
\* returned exit code 4.
C18_Witness ==
    /\ RunWroteBundle
    /\ plan.HardCut
    /\ text.marker
    /\ ret.code = ExitPartial
    /\ ret.OutputPath = "default.md"
    /\ Len(effects.written) = 1

(***************************************************************************)
(* SpecAtomic: util.AtomicWriteFile (util.go:152-186), one action per      *)
(* system call, each of which may fail, with a crash of the process        *)
(* possible between any two of them.                                       *)
(***************************************************************************)
\* What a path holds: nothing, or a file with these bytes.
Absent == [exists |-> FALSE, bytes |-> <<>>]
Holds(b) == [exists |-> TRUE, bytes |-> b]

\* The path given to AtomicWriteFile.
AtomPath == "out.md"

\* The temporary file is the target itself.
tmpNameIsTarget(path) == path

\* util.go:158-159: the temporary file, "." + base + ".tmp." + pid, in the
\* directory of the target.
tmpName(path) == "." \o path \o ".tmp.7"

\* What the target holds before the call, and the data to write.
AtomOlds == {Absent, Holds(<<"o">>), Holds(<<"o", "l", "d">>)}
AtomDatas == {<<>>, <<"n">>, <<"n", "e">>, <<"n", "e", "w">>}

InitAtomic ==
    /\ TruncIdle
    /\ PipeIdle
    /\ DiscIdle
    /\ EnIdle
    /\ CtrIdle
    /\ RunIdle
    /\ ApplyIdle
    /\ apc = "mkdir"
    /\ \E old \in AtomOlds, data \in AtomDatas :
         /\ adisk = [f \in {AtomPath, tmpName(AtomPath)} |->
                        IF f = AtomPath THEN old ELSE Absent]
         /\ aw = [old |-> old, data |-> data, n |-> 0, werr |-> FALSE,
                  cerr |-> FALSE, failed |-> "", ret |-> ""]

AtomFrame == UNCHANGED <<truncVars, pipeVars, discVars, enVars, ctrVars, runVars, applyVars>>

\* util.go:155-157: os.MkdirAll, and the return of its error.
AtomMkdir ==
    /\ apc = "mkdir"
    /\ \/ /\ apc' = "returned"
          /\ aw' = [aw EXCEPT !.ret = "mkdir"]
       \/ /\ apc' = "open"
          /\ aw' = aw
    /\ adisk' = adisk
    /\ AtomFrame

\* util.go:160-163: os.OpenFile with O_CREATE|O_WRONLY|O_TRUNC, and the
\* return of its error.
AtomOpen ==
    /\ apc = "open"
    /\ \/ /\ apc' = "returned"
          /\ aw' = [aw EXCEPT !.ret = "open temp"]
          /\ adisk' = adisk
       \/ /\ apc' = "write"
          /\ adisk' = [adisk EXCEPT ![tmpName(AtomPath)] = Holds(<<>>)]
          /\ aw' = aw
    /\ AtomFrame

\* util.go:164: f.Write, one byte reaching the file at a time; the write
\* may fail before any byte of the rest.
AtomWrite ==
    /\ apc = "write"
    /\ \/ /\ aw.n < Len(aw.data)
          /\ adisk' = [adisk EXCEPT ![tmpName(AtomPath)] = Holds(Append(@.bytes, aw.data[aw.n + 1]))]
          /\ aw' = [aw EXCEPT !.n = @ + 1]
          /\ apc' = "write"
       \/ /\ aw.n < Len(aw.data)
          /\ aw' = [aw EXCEPT !.werr = TRUE]
          /\ apc' = "close"
          /\ adisk' = adisk
       \/ /\ aw.n = Len(aw.data)
          /\ apc' = "close"
          /\ UNCHANGED <<aw, adisk>>
    /\ AtomFrame

\* util.go:165-173: f.Close and the two error tests.
AtomClose ==
    /\ apc = "close"
    /\ \E c \in BOOLEAN :
         /\ aw' = [aw EXCEPT !.cerr = c,
                             !.failed = IF aw.werr THEN "write temp"
                                        ELSE IF c THEN "close temp" ELSE ""]
         /\ apc' = IF aw.werr \/ c THEN "cleanup" ELSE "rename"
    /\ adisk' = adisk
    /\ AtomFrame

\* util.go:174-185: the directory sync, os.Rename, and the test of its error.
AtomRename ==
    /\ apc = "rename"
    /\ \/ /\ apc' = "cleanup"
          /\ aw' = [aw EXCEPT !.failed = "rename"]
          /\ adisk' = adisk
       \/ /\ apc' = "returned"
          /\ aw' = [aw EXCEPT !.ret = "nil"]
          /\ adisk' = [f \in DOMAIN adisk |->
                          IF f = AtomPath THEN adisk[tmpName(AtomPath)]
                          ELSE IF f = tmpName(AtomPath) THEN Absent
                          ELSE adisk[f]]
    /\ AtomFrame

\* util.go:167, 171, 183: os.Remove(tmp) and the return of the error.
AtomCleanup ==
    /\ apc = "cleanup"
    /\ adisk' = [adisk EXCEPT ![tmpName(AtomPath)] = Absent]
    /\ aw' = [aw EXCEPT !.ret = aw.failed]
    /\ apc' = "returned"
    /\ AtomFrame

\* The process dies between two system calls.
AtomCrash ==
    /\ apc \in {"mkdir", "open", "write", "close", "rename", "cleanup"}
    /\ apc' = "crashed"
    /\ UNCHANGED <<adisk, aw>>
    /\ AtomFrame

NextAtomic ==
    \/ AtomMkdir
    \/ AtomOpen
    \/ AtomWrite
    \/ AtomClose
    \/ AtomRename
    \/ AtomCleanup
    \/ AtomCrash

SpecAtomic == InitAtomic /\ [][NextAtomic]_vars

KindInvalidInput == "invalid_input"
KindIO == "io"

\* What a relative path under the root holds.
NoFile == [kind |-> "none", bytes |-> <<>>]
DirEntry == [kind |-> "dir", bytes |-> <<>>]
FileOf(b) == [kind |-> "file", bytes |-> b]

\* filepath.Clean of a path given as its segments: "." is passed over, ".."
\* removes the segment before it, is dropped at the top of an absolute path
\* and is kept at the front of a relative one.
RECURSIVE cleanSegs(_, _, _)
cleanSegs(abs, segs, out) ==
    IF Len(segs) = 0 THEN out
    ELSE LET s == Head(segs) IN
         IF s = "." THEN cleanSegs(abs, Tail(segs), out)
         ELSE IF s = ".."
              THEN IF Len(out) > 0 /\ out[Len(out)] # ".."
                   THEN cleanSegs(abs, Tail(segs), SubSeq(out, 1, Len(out) - 1))
                   ELSE IF abs THEN cleanSegs(abs, Tail(segs), out)
                   ELSE cleanSegs(abs, Tail(segs), Append(out, ".."))
              ELSE cleanSegs(abs, Tail(segs), Append(out, s))

Clean(p) == [abs |-> p.abs, segs |-> cleanSegs(p.abs, p.segs, <<>>)]

\* apply.go:362-389 resolveTarget: [err, rel].  The root is absolute and
\* clean, so filepath.Rel(root, Join(root, clean)) is clean itself.
resolveTarget(declared) ==
    IF ~declared.abs /\ declared.segs = <<>>
    THEN [err |-> KindInvalidInput, rel |-> <<>>]
    ELSE LET clean == Clean(declared) IN
         IF ~clean.abs /\ clean.segs = <<>> THEN [err |-> KindInvalidInput, rel |-> <<>>]
         ELSE IF clean.abs THEN [err |-> KindInvalidInput, rel |-> <<>>]
         ELSE IF clean.segs[1] = ".." THEN [err |-> KindInvalidInput, rel |-> <<>>]
         ELSE [err |-> "", rel |-> clean.segs]

\* os.Stat of a path under the root: "error" when a component of the path
\* is a regular file (ENOTDIR), else what the path holds.
Stat(files, rel) ==
    IF \E k \in 1..(Len(rel) - 1) :
          SubSeq(rel, 1, k) \in DOMAIN files /\ files[SubSeq(rel, 1, k)].kind = "file"
    THEN "error"
    ELSE IF rel \in DOMAIN files THEN files[rel].kind ELSE "none"

\* One round of the validation loop without the test of Force.
planBlockAllowsOverwrite(b, seenRel, files, force) ==
    LET t == resolveTarget(b.Path) IN
    IF t.err # "" THEN [err |-> t.err, pf |-> <<>>]
    ELSE IF t.rel \in seenRel THEN [err |-> KindInvalidInput, pf |-> <<>>]
    ELSE LET st == Stat(files, t.rel) IN
         IF st = "error" THEN [err |-> KindIO, pf |-> <<>>]
         ELSE IF st = "dir" THEN [err |-> KindInvalidInput, pf |-> <<>>]
         ELSE [err |-> "",
               pf |-> [RelPath |-> t.rel, Content |-> b.Content, Exists |-> st = "file",
                       Overwrite |-> st = "file" /\ force]]

\* apply.go:247-274: one round of the validation loop for block b, given
\* the targets seen so far: [err, pf].
planBlock(b, seenRel, files, force) ==
    LET t == resolveTarget(b.Path) IN
    IF t.err # "" THEN [err |-> t.err, pf |-> <<>>]
    ELSE IF t.rel \in seenRel THEN [err |-> KindInvalidInput, pf |-> <<>>]
    ELSE LET st == Stat(files, t.rel)
             exists == st \in {"file", "dir"} IN
         IF st = "error" THEN [err |-> KindIO, pf |-> <<>>]
         ELSE IF st = "dir" THEN [err |-> KindInvalidInput, pf |-> <<>>]
         ELSE IF exists /\ ~force THEN [err |-> KindInvalidInput, pf |-> <<>>]
         ELSE [err |-> "",
               pf |-> [RelPath |-> t.rel, Content |-> b.Content, Exists |-> exists,
                       Overwrite |-> exists /\ force]]

\* apply.go:245-274: the validation loop: [err, plan].
RECURSIVE planLoop(_, _, _, _, _)
planLoop(blocks, seenRel, planned, files, force) ==
    IF Len(blocks) = 0 THEN [err |-> "", plan |-> planned]
    ELSE LET r == planBlock(Head(blocks), seenRel, files, force) IN
         IF r.err # "" THEN [err |-> r.err, plan |-> <<>>]
         ELSE planLoop(Tail(blocks), seenRel \cup {r.pf.RelPath}, Append(planned, r.pf),
                       files, force)

\* apply.go:346-360 effectiveRoot: the error kind, "" when the root is a
\* directory.
effectiveRoot(root) ==
    IF root = "missing" THEN KindIO
    ELSE IF root = "file" THEN KindInvalidInput
    ELSE ""

\* apply.go:235-281: everything Apply does before it writes: [err, plan].
validateBlocks(in, files) ==
    IF Len(in.blocks) = 0 THEN [err |-> KindInvalidInput, plan |-> <<>>]
    ELSE IF effectiveRoot(in.Root) # "" THEN [err |-> effectiveRoot(in.Root), plan |-> <<>>]
    ELSE planLoop(in.blocks, {}, <<>>, files, in.Force)

\* Result{} with an error.
ApplyFailed(kind) == [err |-> kind, Files |-> <<>>, DryRun |-> FALSE, Wrote |-> 0]

\* The declared paths the model enumerates.
Rel(segs) == [abs |-> FALSE, segs |-> segs]
DeclPaths ==
    {Rel(<<"a.txt">>), Rel(<<".", "a.txt">>), Rel(<<"d", "..", "a.txt">>),
     [abs |-> TRUE, segs |-> <<"etc", "p">>],
     Rel(<<"..", "x">>), Rel(<<"d", "..", "..", "x">>),
     Rel(<<"d">>), Rel(<<"d", "b.txt">>), Rel(<<"a.txt", "x">>), Rel(<<".">>)}

Block(p) == [Path |-> p, Content |-> <<"n">>]

ApplyBlocks ==
    {<<>>} \cup {<<Block(p)>> : p \in DeclPaths}
           \cup {<<Block(p), Block(q)>> : p \in DeclPaths, q \in DeclPaths}

\* The paths under the root the model follows, and what they may hold when
\* Apply is called.
ApplyRels == {<<"a.txt">>, <<"d">>, <<"d", "b.txt">>, <<"a.txt", "x">>}

ApplyRoots ==
    {[r \in ApplyRels |->
        CASE r = <<"a.txt">> -> a
          [] r = <<"d">> -> d
          [] r = <<"d", "b.txt">> -> IF d.kind = "dir" THEN b ELSE NoFile
          [] OTHER -> NoFile] :
        a \in {NoFile, FileOf(<<"o">>)},
        d \in {NoFile, DirEntry, FileOf(<<"o">>)},
        b \in {NoFile, FileOf(<<"o">>)}}

InitApply ==
    /\ TruncIdle
    /\ PipeIdle
    /\ DiscIdle
    /\ EnIdle
    /\ CtrIdle
    /\ RunIdle
    /\ AtomIdle
    /\ ypc = "start"
    /\ \E root \in {"dir", "missing", "file"} :
         /\ yFiles \in IF root = "dir" THEN ApplyRoots ELSE {[r \in ApplyRels |-> NoFile]}
         /\ yIn \in [blocks : ApplyBlocks, Root : {root}, Write : BOOLEAN,
                     Force : BOOLEAN, files0 : {yFiles}]
    /\ yOut = ApplyFailed("")

ApplyFrame == UNCHANGED <<truncVars, pipeVars, discVars, enVars, ctrVars, runVars, atomVars>>

\* apply.go:234-281: the checks, the plan, and the return of a dry run.
ApplyValidate ==
    /\ ypc = "start"
    /\ LET v == validateBlocks(yIn, yFiles) IN
         IF v.err # ""
         THEN /\ yOut' = ApplyFailed(v.err)
              /\ ypc' = "done"
         ELSE /\ yOut' = [err |-> "", Files |-> v.plan, DryRun |-> ~yIn.Write, Wrote |-> 0]
              /\ ypc' = IF yIn.Write THEN "write" ELSE "done"
    /\ UNCHANGED <<yIn, yFiles>>
    /\ ApplyFrame

\* apply.go:286-291: one round of the write loop: AtomicWriteFile makes the
\* directories above the file and puts the content in place, or fails and
\* leaves the target as it was.
ApplyWrite ==
    /\ ypc = "write"
    /\ LET pf == yOut.Files[yOut.Wrote + 1] IN
         \/ /\ yOut' = ApplyFailed(KindIO)
            /\ ypc' = "done"
            /\ yFiles' = yFiles
         \/ /\ yFiles' = [r \in DOMAIN yFiles |->
                             IF r = pf.RelPath THEN FileOf(pf.Content)
                             ELSE IF Len(r) < Len(pf.RelPath)
                                     /\ r = SubSeq(pf.RelPath, 1, Len(r))
                                  THEN DirEntry
                                  ELSE yFiles[r]]
            /\ yOut' = [yOut EXCEPT !.Wrote = @ + 1]
            /\ ypc' = IF yOut.Wrote + 1 = Len(yOut.Files) THEN "done" ELSE "write"
    /\ UNCHANGED yIn
    /\ ApplyFrame

NextApply ==
    \/ ApplyValidate
    \/ ApplyWrite

SpecApply == InitApply /\ [][NextApply]_vars

(***************************************************************************)
(* C22.  Apply writes nothing unless every block passed validation.        *)
(***************************************************************************)
\* The declared path of block i stays under the root once cleaned.
UnderRoot(i) ==
    LET c == Clean(yIn.blocks[i].Path) IN
    ~c.abs /\ c.segs # <<>> /\ c.segs[1] # ".."

\* Block i is one the claim names: its path is absolute, leaves the root,
\* is a directory, is the target of another block too, or is an existing
\* file while Force is off.
BlockRejected(i) ==
    LET c == Clean(yIn.blocks[i].Path) IN
    \/ c.abs
    \/ ~c.abs /\ c.segs # <<>> /\ c.segs[1] = ".."
    \/ /\ UnderRoot(i)
       /\ \/ yIn.files0[c.segs].kind = "dir"
          \/ yIn.files0[c.segs].kind = "file" /\ ~yIn.Force
          \/ \E j \in 1..Len(yIn.blocks) :
                j # i /\ UnderRoot(j) /\ Clean(yIn.blocks[j].Path).segs = c.segs

SomeBlockRejected == \E i \in 1..Len(yIn.blocks) : BlockRejected(i)

\* os.Stat cannot look at the target of block i: a component of its path
\* is a regular file.
StatFails(i) == UnderRoot(i) /\ Stat(yIn.files0, Clean(yIn.blocks[i].Path).segs) = "error"

\* Nothing under the root was created or changed, and nothing counted as
\* written.
NothingWritten == yFiles = yIn.files0 /\ yOut.Wrote = 0

\* C22 as stated: with a rejected block Apply changes nothing and returns an
\* invalid-input error; a dry run changes nothing and reports Wrote = 0.
C22_ApplyAllOrNothing ==
    ypc # "off" =>
        /\ SomeBlockRejected =>
              /\ NothingWritten
              /\ ypc = "done" => yOut.err = KindInvalidInput
        /\ ~yIn.Write => NothingWritten

\* C22, error kind amended: with a rejected block Apply changes nothing and
\* returns an error, of kind invalid input unless the root or the target of
\* some block could not be examined, of kind I/O then at most; a dry run
\* changes nothing and reports Wrote = 0.
C22_ApplyAllOrNothingAnyKind ==
    ypc # "off" =>
        /\ SomeBlockRejected =>
              /\ NothingWritten
              /\ ypc = "done" =>
                    /\ yOut.err \in {KindInvalidInput, KindIO}
                    /\ yOut.err = KindIO =>
                          \/ yIn.Root = "missing"
                          \/ \E i \in 1..Len(yIn.blocks) : StatFails(i)
        /\ ~yIn.Write => NothingWritten

\* Apply has returned from a forced write whose first block is a new file
\* and whose second block has an absolute path.
C22_Witness ==
    /\ ypc = "done"
    /\ yIn.Write
    /\ yIn.Force
    /\ yIn.Root = "dir"
    /\ yIn.blocks = <<Block(Rel(<<"d", "b.txt">>)), Block([abs |-> TRUE, segs |-> <<"etc", "p">>])>>
    /\ yIn.files0[<<"d">>].kind = "none"
    /\ yOut.err = KindInvalidInput
    /\ NothingWritten

(***************************************************************************)
(* C23.  The kept content is a head of the file.                           *)
(***************************************************************************)
\* The first k lines of a file: its bytes up to and with the k-th LF, or all
\* of them when it has fewer.
RECURSIVE FirstLines(_, _)
FirstLines(bytes, k) ==
    IF k = 0 \/ Len(bytes) = 0 THEN <<>>
    ELSE <<Head(bytes)>> \o FirstLines(Tail(bytes), IF Head(bytes) = "LF" THEN k - 1 ELSE k)

\* Content without the truncation marker.
KeptContent(e) == SubSeq(e.Content, 1, ContentBytes(e))

\* C23: for every line limit and byte limit, the content the engine keeps,
\* without the marker, is the first KeptLines lines of the file, newlines
\* normalized: no line is stored after a line that was not kept.
C23_KeptIsHead ==
    (tpc \in {"ran", "reran"} /\ tOut.failed = "") =>
        KeptContent(tOut) = NormalizeNewlines(FirstLines(tIn.bytes, tOut.KeptLines))

\* The file "aa\na\n" under a byte limit of 2: the first line does not fit,
\* the second does and is kept.
C23_LaterLineKept ==
    /\ tpc = "ran"
    /\ tIn.bytes = <<"a", "a", "LF", "a", "LF">>
    /\ tIn.maxBytes = 2
    /\ tIn.maxLines = 2
    /\ tOut.failed = ""
    /\ tOut.Truncated
    /\ tOut.KeptLines = 1
    /\ tOut.OriginalLines = 2
    /\ KeptContent(tOut) = <<"a", "LF">>

(***************************************************************************)
(* C29.  Truncated and the two line counts.                                *)
(***************************************************************************)
\* C29: every FileEntry of the engine, of the first run and of the run on
\* its own output, has KeptLines <= OriginalLines, and Truncated exactly
\* when KeptLines < OriginalLines; the empty file gives 0 of 0 lines and
\* Truncated = FALSE.
C29_TruncatedIffLinesLost ==
    /\ \A e \in {tOut, tOut2} :
         e.failed = "" =>
            /\ e.KeptLines <= e.OriginalLines
            /\ e.Truncated <=> e.KeptLines < e.OriginalLines
    /\ (tpc \in {"ran", "reran"} /\ tIn.bytes = <<>> /\ tIn.ioerr = "none") =>
          /\ tOut.failed = ""
          /\ tOut.OriginalLines = 0
          /\ tOut.KeptLines = 0
          /\ ~tOut.Truncated

\* A file whose second line has no newline and starts after the line limit
\* was reached: cut in the middle of the line, one line kept of two.
C29_Witness ==
    /\ tpc = "ran"
    /\ tIn.bytes = <<"a", "LF", "a">>
    /\ tIn.maxLines = 1
    /\ tOut.failed = ""
    /\ tOut.Truncated
    /\ tOut.KeptLines = 1
    /\ tOut.OriginalLines = 2

(***************************************************************************)
(* C24.  One budget_exceeded entry per file of a dropped slice.            *)
(***************************************************************************)
\* The indices of Plan.Dropped that name the path.
DroppedAt(p, path) == {i \in 1..Len(p.Dropped) : p.Dropped[i].RelPath = path}

\* C24: in every plan EnforceGlobalBudget returns after dropping slices,
\* each file of the input plan whose primary slice was dropped has exactly
\* one entry in Plan.Dropped with reason budget_exceeded, and no path has
\* more than one entry in Plan.Dropped.
C24_OneEntryPerDroppedFile ==
    (pc = "done" /\ err = "" /\ Len(plan.DroppedSlices) > 0) =>
        /\ \A k \in 1..Len(basePlan.Included) :
              basePlan.Included[k].PrimarySlice \in SeqSet(plan.DroppedSlices) =>
                 Cardinality({i \in DroppedAt(plan, basePlan.Included[k].RelPath) :
                                 plan.Dropped[i].Reason = "budget_exceeded"}) = 1
        /\ \A path \in Paths : Cardinality(DroppedAt(plan, path)) <= 1

\* The same for plans that needed at most one slice drop.
C24_OneEntryAfterOneDrop ==
    (pc = "done" /\ err = "" /\ Len(plan.DroppedSlices) = 1) =>
        /\ \A k \in 1..Len(basePlan.Included) :
              basePlan.Included[k].PrimarySlice \in SeqSet(plan.DroppedSlices) =>
                 Cardinality({i \in DroppedAt(plan, basePlan.Included[k].RelPath) :
                                 plan.Dropped[i].Reason = "budget_exceeded"}) = 1
        /\ \A path \in Paths : Cardinality(DroppedAt(plan, path)) <= 1

\* Two slices were dropped and the one file of the first has two entries.
C24_TwiceRecorded ==
    /\ pc = "done"
    /\ err = ""
    /\ Len(plan.DroppedSlices) = 2
    /\ \E path \in Paths :
         /\ Cardinality(DroppedAt(plan, path)) = 2
         /\ \A i \in DroppedAt(plan, path) :
               /\ plan.Dropped[i].Reason = "budget_exceeded"
               /\ plan.Dropped[i].PrimarySlice = plan.DroppedSlices[1]

(***************************************************************************)
(* C25.  The ladder of EnforceGlobalBudget is followed in order.           *)
(***************************************************************************)
\* The budget of the run, in runes.
OverBudget(r) == r > cfg.maxChars

\* A step of the drop loop that got its render: one more dropped slice.
SliceDropped == Len(plan'.DroppedSlices) > Len(plan.DroppedSlices)

\* The tightening step, rendered: the drop phase is left with no slice
\* dropped in this step.
TightenDone ==
    /\ pc = "drop"
    /\ pc' \in {"done", "hardcut"}
    /\ err' = ""
    /\ plan'.DroppedSlices = plan.DroppedSlices

\* C25: a slice is dropped only after the initial render, and the render
\* before this drop, exceeded the budget, and the plan is rendered again
\* after the drop; tightening happens only when the drop phase ended over
\* budget with at most one slice kept, at most once, and is followed by a
\* render; a plan gets HardCut only when the render of the tightened plan
\* exceeded the budget; the returned text is the render of the returned
\* plan, cut only when HardCut is set.
C25_LadderInOrder ==
    /\ []((rpc = "pipeline" /\ pc \in {"drop", "hardcut", "done"} /\ err = ""
           /\ nRenders > 0) =>
            /\ nRenders \in {1 + Len(plan.DroppedSlices), 2 + Len(plan.DroppedSlices)}
            /\ Len(plan.DroppedSlices) > 0 => OverBudget(RenderMarkdownRunes(basePlan))
            /\ pc = "hardcut" =>
                  /\ lastRender = RenderMarkdownRunes(plan)
                  /\ OverBudget(lastRender)
                  /\ nRenders = 2 + Len(plan.DroppedSlices)
            /\ (pc = "done" /\ ~plan.HardCut) =>
                  text = Rendered(RenderMarkdownRunes(plan))
            /\ (pc = "done" /\ plan.HardCut) =>
                  /\ OverBudget(RenderMarkdownRunes(plan))
                  /\ text = hardCutText(RenderMarkdownRunes(plan), cfg.maxChars)
                  /\ nRenders = 2 + Len(plan.DroppedSlices))
    /\ [][/\ SliceDropped =>
               /\ pc = "drop"
               /\ OverBudget(RenderMarkdownRunes(basePlan))
               /\ OverBudget(lastRender)
               /\ nRenders = 1 + Len(plan.DroppedSlices)
               /\ nRenders' = nRenders + 1
               /\ lastRender' = RenderMarkdownRunes(plan')
          /\ TightenDone =>
               /\ OverBudget(lastRender)
               /\ Cardinality(keep) <= 1
               /\ nRenders = 1 + Len(plan.DroppedSlices)
               /\ nRenders' = nRenders + 1
               /\ lastRender' = RenderMarkdownRunes(plan')
          /\ (plan'.HardCut /\ ~plan.HardCut) =>
               /\ pc = "hardcut"
               /\ OverBudget(lastRender)
               /\ nRenders' = nRenders
               /\ plan' = [plan EXCEPT !.HardCut = TRUE, !.Partial = TRUE]]_vars

\* The whole ladder: a slice dropped, the plan tightened, the text cut.
C25_Witness ==
    /\ rpc = "pipeline"
    /\ pc = "done"
    /\ err = ""
    /\ plan.HardCut
    /\ Len(plan.DroppedSlices) >= 1
    /\ nRenders = 2 + Len(plan.DroppedSlices)
    /\ text.marker

(***************************************************************************)
(* C26.  A plan that fits is returned as it came.                          *)
(***************************************************************************)
\* The render of the plan EnforceGlobalBudget was called with is within the
\* budget.
FirstRenderFits == RenderMarkdownRunes(basePlan) <= cfg.maxChars

\* C26: when the first render of the input plan is within the budget,
\* EnforceGlobalBudget never leaves for the drop phase, and when it has
\* returned without error it has called the render callback exactly once
\* and returns the input plan, field for field, with the text of that
\* render.
C26_FitsReturnedUnchanged ==
    (rpc # "off" /\ nRenders > 0 /\ err = "" /\ FirstRenderFits) =>
        /\ pc = "done"
        /\ nRenders = 1
        /\ plan = basePlan
        /\ plan.DroppedSlices = <<>>
        /\ ~plan.HardCut
        /\ text = [body |-> RenderMarkdownRunes(basePlan), marker |-> FALSE]

\* A partial input plan with two files that fits at the first render.
C26_Witness ==
    /\ rpc = "pipeline"
    /\ pc = "done"
    /\ err = ""
    /\ nRenders = 1
    /\ FirstRenderFits
    /\ basePlan.Partial
    /\ Len(basePlan.Included) = 2
    /\ Len(basePlan.Dropped) = 1
    /\ plan = basePlan

(***************************************************************************)
(* C27.  The tightening step.                                              *)
(***************************************************************************)
\* max(1, floor(PerFileMaxLines / 2)).
HalvedLineLimit == IF cfg.maxLines \div 2 >= 1 THEN cfg.maxLines \div 2 ELSE 1

\* The plan is the tightened plan: it was rendered once more than the
\* initial render and the renders after the drops.
PlanIsTightened ==
    /\ pc \in {"hardcut", "done"}
    /\ err = ""
    /\ nRenders = 2 + Len(plan.DroppedSlices)

\* The step that tightens: the drop loop is over and the enforcement leaves
\* the drop phase without error.
TightenStep ==
    /\ pc = "drop"
    /\ ~dropLoopGoesOn
    /\ pc' # "drop"
    /\ err' = ""

\* C27: the tightening step runs the truncation engine with line limit
\* max(1, floor(PerFileMaxLines / 2)) and the same byte limit over the files
\* Included after the drop phase and no others: every Included entry of the
\* tightened plan is the engine's entry for its file under these limits and
\* keeps at most that many lines, every file Included before is Included or
\* newly Dropped as unreadable, no Dropped file is Included, and Dropped
\* entries and DroppedSlices are as before the step.
C27_TighteningStep ==
    /\ [](PlanIsTightened =>
            /\ \A i \in 1..Len(plan.Included) :
                  /\ plan.Included[i].KeptLines <= HalvedLineLimit
                  /\ plan.Included[i].KeptBytes <= cfg.maxBytes
            /\ IncludedPaths(plan) \cap DroppedPaths(plan) = {})
    /\ [][TightenStep =>
            /\ plan'.DroppedSlices = plan.DroppedSlices
            /\ IncludedPaths(plan') \subseteq IncludedPaths(plan)
            /\ Len(plan'.Included) = Cardinality(IncludedPaths(plan'))
            /\ Len(plan'.Dropped) =
                  Len(plan.Dropped) + Cardinality(IncludedPaths(plan) \ IncludedPaths(plan'))
            /\ \A i \in 1..Len(plan.Dropped) :
                  \E j \in 1..Len(plan'.Dropped) : plan'.Dropped[j] = plan.Dropped[i]
            /\ \A path \in IncludedPaths(plan) \ IncludedPaths(plan') :
                  \E j \in 1..Len(plan'.Dropped) :
                     /\ plan'.Dropped[j].RelPath = path
                     /\ plan'.Dropped[j].Reason = "unreadable"
            /\ \A i \in 1..Len(plan'.Included) :
                  LET f == plan'.Included[i]
                      e == readAndTruncateFile(fs[f.RelPath].bytes, fs[f.RelPath].ioerr,
                                               HalvedLineLimit, cfg.maxBytes)
                  IN  /\ e.failed = ""
                      /\ f.KeptLines = e.KeptLines
                      /\ f.OriginalLines = e.OriginalLines
                      /\ f.Truncated = e.Truncated
                      /\ f.Content = e.Content]_vars

\* A slice was dropped, and the five-line file, which had the line
\* limit 4 with four lines kept, is cut to two lines by the tightening.
C27_Witness ==
    /\ PlanIsTightened
    /\ pc = "done"
    /\ cfg.maxLines = 4
    /\ Len(plan.DroppedSlices) >= 1
    /\ \E i \in 1..Len(plan.Included), k \in 1..Len(basePlan.Included) :
         /\ plan.Included[i].RelPath = basePlan.Included[k].RelPath
         /\ basePlan.Included[k].KeptLines = 4
         /\ plan.Included[i].KeptLines = 2
         /\ plan.Included[i].OriginalLines = 5
         /\ plan.Included[i].Truncated

(***************************************************************************)
(* C30.  A file leaves Included only with its last member slice.           *)
(***************************************************************************)
\* C30: during and after the drop phase, no file recorded as
\* budget_exceeded is a member of a slice that is still kept, whatever the
\* priorities of its member slices, equal ones included.
C30_DroppedOnlyWithAllSlices ==
    (pc \in {"drop", "hardcut", "done"} /\ err = "") =>
        \A i \in 1..Len(plan.Dropped) :
            plan.Dropped[i].Reason = "budget_exceeded" =>
                SeqSet(plan.Dropped[i].Slices) \cap keep = {}

\* The same for files all of whose member slices other than the primary
\* have a lower priority than the primary.
C30_DroppedOnlyWithAllSlicesNoTie ==
    (pc \in {"drop", "hardcut", "done"} /\ err = "") =>
        \A i \in 1..Len(plan.Dropped) :
            (/\ plan.Dropped[i].Reason = "budget_exceeded"
             /\ \A s \in SeqSet(plan.Dropped[i].Slices) \ {plan.Dropped[i].PrimarySlice} :
                   cfg.pri[s] < cfg.pri[plan.Dropped[i].PrimarySlice]) =>
                SeqSet(plan.Dropped[i].Slices) \cap keep = {}

\* a.go, member of api and tests of equal priority with primary api, is
\* recorded as budget_exceeded when api is dropped while tests is kept.
C30_DroppedWithSliceKept ==
    /\ pc = "done"
    /\ err = ""
    /\ plan.DroppedSlices = <<"api">>
    /\ cfg.pri["api"] = cfg.pri["tests"]
    /\ "tests" \in keep
    /\ \E i \in 1..Len(plan.Dropped) :
         /\ plan.Dropped[i].RelPath = "a.go"
         /\ plan.Dropped[i].Reason = "budget_exceeded"
         /\ plan.Dropped[i].PrimarySlice = "api"
         /\ "tests" \in SeqSet(plan.Dropped[i].Slices)

(***************************************************************************)
(* C28.  Explain against Select.                                           *)
(***************************************************************************)
\* part_003:228-243 firstMatch: the first pattern that matches, and whether
\* that pattern names a hidden segment.
RECURSIVE firstMatch(_, _)
firstMatch(rel, patterns) ==
    IF Len(patterns) = 0 THEN [matched |-> FALSE, pattern |-> "", explicitHidden |-> FALSE]
    ELSE IF Head(patterns) # "" /\ Match(Head(patterns), rel)
         THEN [matched |-> TRUE, pattern |-> Head(patterns),
               explicitHidden |-> patternExplicitlyIncludesHidden(Head(patterns))]
         ELSE firstMatch(rel, Tail(patterns))

\* part_003:218-226 ExplainSliceMatch.
ExplainSliceMatch(rel, s) ==
    LET inc == firstMatch(rel, SliceInclude(s))
        exc == firstMatch(rel, SliceExclude(s))
    IN  [includeMatched |-> inc.matched, includePattern |-> inc.pattern,
         includeExplicitH |-> inc.explicitHidden,
         excludeMatched |-> exc.matched, excludePattern |-> exc.pattern]

\* doctor.go:245-284: the effective membership Explain computes, sorted.
explainEffective(en, rel, isHidden, includeHidden) ==
    SortedNames({s \in Slices :
                   LET m == ExplainSliceMatch(rel, s) IN
                   /\ s \in en
                   /\ m.includeMatched /\ ~m.excludeMatched
                   /\ ~(isHidden /\ ~includeHidden /\ ~m.includeExplicitH)})

\* doctor.go:309: the verdict "included".
explainIncluded(en, rel, files, includeHidden) ==
    /\ files[rel].reason = ""
    /\ Len(explainEffective(en, rel, isHiddenRel(rel), includeHidden)) > 0

\* C28: for every path, every enabled set and both values of
\* include-hidden, the matched enabled slices Explain reports are the member
\* slices Select records for the path (none when Select passes the path
\* over), and Explain's verdict "included" is whether Select puts the path
\* in Included.
C28_ExplainAgreesWithSelect ==
    pc = "build" =>
        \A p \in Paths :
            LET eff == explainEffective(enabled, p, isHiddenRel(p), cfg.includeHidden) IN
            /\ \A f \in SelectedFiles : f.RelPath = p => f.Slices = eff
            /\ (\A f \in SelectedFiles : f.RelPath # p) => eff = <<>>
            /\ explainIncluded(enabled, p, fs, cfg.includeHidden) <=> p \in SelIncludedPaths

\* The same for the paths that are not hidden, or with include-hidden on.
C28_ExplainAgreesWhenNotHidden ==
    pc = "build" =>
        \A p \in Paths :
            (cfg.includeHidden \/ ~isHiddenRel(p)) =>
                LET eff == explainEffective(enabled, p, isHiddenRel(p), cfg.includeHidden) IN
                /\ \A f \in SelectedFiles : f.RelPath = p => f.Slices = eff
                /\ (\A f \in SelectedFiles : f.RelPath # p) => eff = <<>>
                /\ explainIncluded(enabled, p, fs, cfg.includeHidden) <=> p \in SelIncludedPaths

\* Include-hidden off and tests (include "**/*", ".github/**") enabled:
\* Select includes .github/ci.yml as a member of tests, Explain reports no
\* matched enabled slice and included: false.
C28_ExplainDisagrees ==
    /\ pc = "build"
    /\ ~cfg.includeHidden
    /\ enabled = {"tests"}
    /\ fs[".github/ci.yml"].reason = ""
    /\ ".github/ci.yml" \in SelIncludedPaths
    /\ explainEffective(enabled, ".github/ci.yml", TRUE, FALSE) = <<>>
    /\ ~explainIncluded(enabled, ".github/ci.yml", fs, FALSE)

====
